---- MODULE Spec2Model ----
(***************************************************************************)
(* Resumable browser automation with human-in-the-loop checkpointing.      *)
(*                                                                         *)
(*   app/tools/hitl_manager.py    the HITL coordinator over a Redis store   *)
(*   app/tools/playwright_tool.py the automation engine (run_browser)       *)
(*                                                                         *)
(* Eight specifications share the state:                                   *)
(*   SpecStore  clients of hitl_manager.py acting on the store, with time   *)
(*   SpecRace   two resume_hitl calls racing on one session                 *)
(*   SpecPoll   a client polling get_hitl_status on one session             *)
(*   SpecRun    run_browser invocations, with the store behind them         *)
(*   SpecDetect _check_for_hitl applied to every page                       *)
(*   SpecNav    run_browser invocations on lists with navigate actions      *)
(*   SpecApi    the resolve endpoint of app/api/hitl.py over resume_hitl    *)
(*   SpecGraph  BaseGraph.run of app/agents/base.py                         *)
(***************************************************************************)
EXTENDS Integers, Sequences, FiniteSets, TLC

\* ------------------------------------------------------------------ bounds
MaxSessions == 2
MaxTime == 3800
MaxActions == 3

\* ------------------------------------------------------- program constants
HITL_TTL == 1800
RESOLVED_TTL == 3600
AUDIT_TTL == 300

None == "None"

\* No session id: run_browser's session_id=None, BrowserResult's session_id="".
NoSession == 0

SessionIds == 1..MaxSessions

\* A session id that pause_for_hitl never issued.
UnknownSession == MaxSessions + 1

\* Clock advances the environment may take between two steps (seconds): to within
\* AUDIT_TTL of a pending record's expiry, and to just beyond it.
TimeSteps == {HITL_TTL - 100, HITL_TTL + 100}

\* Positions at which a call has just ended and its caller holds the outcome.
Ended == {"returned", "KeyError"}

VARIABLES
  now,      \* time.time() and the store's clock, in seconds
  kv,       \* the Redis keyspace: live key -> [val, exp]
  nextId,   \* uuid.uuid4(): the next unused session id
  human,    \* the callers of resume_hitl: position and locals
  reader,   \* the caller of pause_for_hitl / get_hitl_status / list_pending_hitl / cancel_hitl
            \* (at: the time.time() a status call read)
  resolvedOnce, \* history: a resume_hitl call has returned for this session id
  caller,   \* what the orchestration layer passes to run_browser: url and actions
  run,      \* the run_browser invocation in progress: position and locals
  trace,    \* history: what that invocation has done so far, in order
  origin,   \* history: for each session id, the list its suspending run executed,
            \* the action it stopped at, how many later runs resumed from it, the
            \* session that run had resumed from, and whether it stopped at the
            \* check after the loop
  polled,   \* the last get_hitl_status response a polling client holds, and its time
  probe,    \* a _check_for_hitl call: the page it is given and what it returns
  api,      \* a POST /api/v1/hitl/resolve request: position, resolution, response
  graph     \* a BaseGraph.run call: position, state, the TaskResult saves attempted

\* ------------------------------------------------------------------ Redis
hitl_key(session_id) == <<"hitl", session_id>>

\* A slip in line 108: the resolution key does not carry the session id.
hitl_resolved_key_shared(session_id) == <<"hitl_resolved", 0>>

\* f"hitl_resolved:{session_id}", lines 108, 140, 201.
hitl_resolved_key(session_id) == <<"hitl_resolved", session_id>>

\* json.dumps / json.loads: the stored value is the encoded text of the dict.
json_dumps(d) == [json |-> d]
json_loads(raw) == raw.json

\* EXISTS key (expired keys are gone from the keyspace).
redis_exists(store, key) == key \in DOMAIN store

\* GET key: the value, or None when the key is absent.
redis_get(store, key) == IF redis_exists(store, key) THEN store[key].val ELSE None

\* SET key value EX seconds: the value and a new expiry replace the old ones.
redis_set(store, key, value, ex, t) ==
  [k \in (DOMAIN store) \cup {key} |->
     IF k = key THEN [val |-> value, exp |-> t + ex] ELSE store[k]]

\* TTL key: remaining seconds, -2 when the key does not exist.
redis_ttl(store, key, t) == IF redis_exists(store, key) THEN store[key].exp - t ELSE 0 - 2

\* DEL key1 key2: the keyspace without them, and the number of keys removed.
redis_delete(store, keys) == [k \in (DOMAIN store) \ keys |-> store[k]]
redis_deleted(store, keys) == Cardinality(keys \cap DOMAIN store)

\* KEYS "hitl:*": the live keys with that prefix ("hitl_resolved:" does not match).
redis_keys_hitl(store) == {k \in DOMAIN store : k[1] = "hitl"}

\* Expiry: a key is gone once its expiry time has been reached.
redis_expire(store, t) ==
  [k \in {x \in DOMAIN store : store[x].exp > t} |-> store[k]]

\* {**a, **b}: b's fields laid over a's.
Merge(a, b) == [k \in (DOMAIN a) \cup (DOMAIN b) |-> IF k \in DOMAIN b THEN b[k] ELSE a[k]]

\* ------------------------------------------------------------ hitl_manager
\* pause_for_hitl: the payload stored under hitl:{session_id} with HITL_TTL.
pause_payload(session_id, reason, session_data, t) ==
  Merge(session_data,
        [reason |-> reason, created_at |-> t, session_id |-> session_id, status |-> "pending"])

\* A slip in line 72: the pending record is given the resolution record's TTL.
pause_for_hitl_resolved_ttl(store, session_id, reason, session_data, t) ==
  redis_set(store, hitl_key(session_id),
            json_dumps(pause_payload(session_id, reason, session_data, t)), RESOLVED_TTL, t)

pause_for_hitl(store, session_id, reason, session_data, t) ==
  redis_set(store, hitl_key(session_id),
            json_dumps(pause_payload(session_id, reason, session_data, t)), HITL_TTL, t)

\* A slip in line 104: {**session_data, **resolution}, the status left as it comes.
resume_merged_unforced(session_data, resolution) == Merge(session_data, resolution)

\* resume_hitl line 104: merged = {**session_data, **resolution, "status": "resolved"}
resume_merged(session_data, resolution) ==
  Merge(Merge(session_data, resolution), [status |-> "resolved"])

\* A slip in line 114: the copy kept for audit is cut down to its head.
resume_marked_trimmed(session_data) ==
  [session_data EXCEPT !["status"] = "resolved", !["actions_remaining"] = <<>>]

\* resume_hitl line 114: session_data["status"] = "resolved"
resume_marked(session_data) == [session_data EXCEPT !["status"] = "resolved"]

\* resume_hitl line 115: the seconds given to the rewritten pending record.
resume_pending_ex(store, session_id, t) == AUDIT_TTL

\* ------------------------------------------------- inputs of the store spec
\* Session data handed to a direct pause_for_hitl call (as src/script.py does).
SessionDatas ==
  { [cookies |-> <<>>, current_url |-> "https://portal/login", screenshot_b64 |-> "png",
     actions_remaining |-> <<[type |-> "click", n |-> 2]>>, matched_selector |-> ".g-recaptcha"] }

\* Resolutions a human may submit: any dict; the first one carries cookies, which
\* the pending record holds too, the second one a status key.
Resolutions ==
  { [captcha_token |-> "tokA", cookies |-> <<"SID=9">>],
    [captcha_token |-> "tokB", status |-> "pending"] }

NoOrigin == [list |-> <<>>, k |-> 0, resumes |-> 0, parent |-> 0, final |-> FALSE]

IdleHuman ==
  [pc |-> "idle", session_id |-> 0, resolution |-> None, session_data |-> None,
   merged |-> None, ttl_before |-> 0, after_success |-> FALSE]

IdleReader ==
  [pc |-> "idle", op |-> None, session_id |-> 0, data |-> None, ret |-> None, at |-> 0,
   failed |-> "none"]

Humans == DOMAIN human

\* A call's outcome is taken by its caller before any other step is scheduled, and
\* steps of the store's other clients fall between two runs of the engine.
Delivered ==
  /\ reader.pc \notin Ended
  /\ \A p \in Humans : human[p].pc \notin Ended
  /\ run.pc = "idle"

\* The resolve endpoint at rest, and BaseGraph.run at rest.
IdleApi == [pc |-> "idle", session_id |-> NoSession, resolution |-> None, http |-> 0]
\* (state: the AgentState; exc: the exception caught at line 274, "" for none;
\* saves: the _save_result calls made, with whether the row was committed)
GraphDefaults ==
  [intermediate_steps |-> "list", hitl_needed |-> FALSE, hitl_reason |-> None,
   hitl_data |-> None, error |-> None, output |-> None, client_id |-> None]
IdleGraph == [pc |-> "idle", state |-> GraphDefaults, task_type |-> "", exc |-> "", saves |-> <<>>]

\* ---------------------------------------------------------------- actions
\* The clock advances; keys whose expiry has been reached vanish.
Tick(d) ==
  /\ Delivered
  /\ now + d <= MaxTime
  /\ now' = now + d
  /\ kv' = redis_expire(kv, now + d)
  /\ UNCHANGED <<nextId, human, reader, resolvedOnce, caller, probe, api, graph, polled, run, trace, origin>>

\* A client calls pause_for_hitl directly (lines 58-75).
CreateSession(session_data) ==
  /\ Delivered
  /\ reader.pc = "idle"
  /\ nextId <= MaxSessions
  /\ kv' = pause_for_hitl(kv, nextId, <<"Test", "">>, session_data, now)
  /\ reader' = [IdleReader EXCEPT !.pc = "returned", !.op = "pause", !.session_id = nextId,
                                  !.ret = nextId]
  /\ nextId' = nextId + 1
  /\ UNCHANGED <<now, human, resolvedOnce, caller, probe, api, graph, polled, run, trace, origin>>

\* A slip in lines 100-101: a missing record is taken as an empty one.
resume_hitl_get_unchecked(p, session_id, resolution) ==
  /\ Delivered
  /\ human[p].pc = "idle"
  /\ LET session_data == IF redis_exists(kv, hitl_key(session_id))
                           THEN json_loads(redis_get(kv, hitl_key(session_id)))
                           ELSE [status |-> "pending"]
     IN human' = [human EXCEPT ![p] =
          [pc |-> "set_resolved", session_id |-> session_id, resolution |-> resolution,
           session_data |-> session_data,
           merged |-> resume_merged(session_data, resolution),
           ttl_before |-> redis_ttl(kv, hitl_key(session_id), now),
           after_success |-> resolvedOnce[session_id]]]
  /\ UNCHANGED <<now, kv, nextId, reader, resolvedOnce, caller, probe, api, graph, polled, run, trace, origin>>

\* resume_hitl lines 98-104: GET hitl:{id}; KeyError when absent, else merge.
resume_hitl_get(p, session_id, resolution) ==
  /\ Delivered
  /\ human[p].pc = "idle"
  /\ LET raw == redis_get(kv, hitl_key(session_id)) IN
       human' = [human EXCEPT ![p] =
         IF ~redis_exists(kv, hitl_key(session_id))
           THEN [IdleHuman EXCEPT !.pc = "KeyError", !.session_id = session_id]
           ELSE [pc |-> "set_resolved", session_id |-> session_id, resolution |-> resolution,
                 session_data |-> json_loads(raw),
                 merged |-> resume_merged(json_loads(raw), resolution),
                 ttl_before |-> redis_ttl(kv, hitl_key(session_id), now),
                 after_success |-> resolvedOnce[session_id]]]
  /\ UNCHANGED <<now, kv, nextId, reader, resolvedOnce, caller, probe, api, graph, polled, run, trace, origin>>

\* A slip in line 110: the resolution record inherits the pending record's TTL.
resume_hitl_set_resolved_pending_ttl(p) ==
  /\ Delivered
  /\ human[p].pc = "set_resolved"
  /\ kv' = redis_set(kv, hitl_resolved_key(human[p].session_id),
                     json_dumps(human[p].merged), human[p].ttl_before, now)
  /\ human' = [human EXCEPT ![p].pc = "set_pending"]
  /\ UNCHANGED <<now, nextId, reader, resolvedOnce, caller, probe, api, graph, polled, run, trace, origin>>

\* resume_hitl lines 107-111: SET hitl_resolved:{id} merged EX RESOLVED_TTL.
resume_hitl_set_resolved(p) ==
  /\ Delivered
  /\ human[p].pc = "set_resolved"
  /\ kv' = redis_set(kv, hitl_resolved_key(human[p].session_id),
                     json_dumps(human[p].merged), RESOLVED_TTL, now)
  /\ human' = [human EXCEPT ![p].pc = "set_pending"]
  /\ UNCHANGED <<now, nextId, reader, resolvedOnce, caller, probe, api, graph, polled, run, trace, origin>>

\* A slip in line 114: the status is taken from the resolution when it carries one.
resume_hitl_set_pending_status_from_resolution(p) ==
  /\ Delivered
  /\ human[p].pc = "set_pending"
  /\ LET sid == human[p].session_id
         st == IF "status" \in DOMAIN human[p].resolution
               THEN human[p].resolution.status ELSE "resolved"
     IN
       /\ kv' = redis_set(kv, hitl_key(sid),
                          json_dumps([human[p].session_data EXCEPT !["status"] = st]),
                          resume_pending_ex(kv, sid, now), now)
       /\ resolvedOnce' = [resolvedOnce EXCEPT ![sid] = TRUE]
  /\ human' = [human EXCEPT ![p].pc = "returned"]
  /\ UNCHANGED <<now, nextId, reader, caller, probe, api, graph, polled, run, trace, origin>>

\* A slip in line 115: the merged record is written back under hitl:{id}.
resume_hitl_set_pending_merged(p) ==
  /\ Delivered
  /\ human[p].pc = "set_pending"
  /\ LET sid == human[p].session_id IN
       /\ kv' = redis_set(kv, hitl_key(sid), json_dumps(human[p].merged),
                          resume_pending_ex(kv, sid, now), now)
       /\ resolvedOnce' = [resolvedOnce EXCEPT ![sid] = TRUE]
  /\ human' = [human EXCEPT ![p].pc = "returned"]
  /\ UNCHANGED <<now, nextId, reader, caller, probe, api, graph, polled, run, trace, origin>>

\* resume_hitl lines 114-118: mark resolved, SET hitl:{id} EX 300, return merged.
resume_hitl_set_pending(p) ==
  /\ Delivered
  /\ human[p].pc = "set_pending"
  /\ LET sid == human[p].session_id IN
       /\ kv' = redis_set(kv, hitl_key(sid), json_dumps(resume_marked(human[p].session_data)),
                          resume_pending_ex(kv, sid, now), now)
       /\ resolvedOnce' = [resolvedOnce EXCEPT ![sid] = TRUE]
  /\ human' = [human EXCEPT ![p].pc = "returned"]
  /\ UNCHANGED <<now, nextId, reader, caller, probe, api, graph, polled, run, trace, origin>>

\* The caller of resume_hitl takes the merged record or the KeyError.
resume_hitl_done(p) ==
  /\ human[p].pc \in Ended
  /\ human' = [human EXCEPT ![p] = IdleHuman]
  /\ UNCHANGED <<now, kv, nextId, reader, resolvedOnce, caller, probe, api, graph, polled, run, trace, origin>>

\* A slip in lines 136-137: the age is taken from a created_at that defaults to now.
get_hitl_status_get_age_zero(session_id) ==
  /\ Delivered
  /\ reader.pc = "idle"
  /\ LET raw == redis_get(kv, hitl_key(session_id)) IN
       reader' =
         IF ~redis_exists(kv, hitl_key(session_id))
           THEN [IdleReader EXCEPT !.pc = "returned", !.op = "status", !.session_id = session_id,
                   !.ret = [found |-> FALSE, data |-> <<>>, age_seconds |-> 0]]
           ELSE [pc |-> "get_resolved", op |-> "status", session_id |-> session_id,
                 data |-> json_loads(raw), at |-> now,
                 ret |-> [found |-> TRUE, data |-> <<>>, age_seconds |-> now - now]]
  /\ UNCHANGED <<now, kv, nextId, human, resolvedOnce, caller, probe, api, graph, polled, run, trace, origin>>

\* get_hitl_status lines 129-137: GET hitl:{id}; found=False when absent.
get_hitl_status_get(session_id) ==
  /\ Delivered
  /\ reader.pc = "idle"
  /\ LET raw == redis_get(kv, hitl_key(session_id)) IN
       reader' =
         IF ~redis_exists(kv, hitl_key(session_id))
           THEN [IdleReader EXCEPT !.pc = "returned", !.op = "status", !.session_id = session_id,
                   !.ret = [found |-> FALSE, data |-> <<>>, age_seconds |-> 0]]
           ELSE [pc |-> "get_resolved", op |-> "status", session_id |-> session_id,
                 data |-> json_loads(raw), at |-> now,
                 ret |-> [found |-> TRUE, data |-> <<>>,
                          age_seconds |-> now - json_loads(raw).created_at]]
  /\ UNCHANGED <<now, kv, nextId, human, resolvedOnce, caller, probe, api, graph, polled, run, trace, origin>>

\* A slip in line 140: the read also renews the resolution record's expiry (GETEX).
get_hitl_status_resolved_renewing ==
  /\ Delivered
  /\ reader.pc = "get_resolved"
  /\ LET rk == hitl_resolved_key(reader.session_id)
         data == IF ~redis_exists(kv, rk) THEN reader.data
                 ELSE Merge(reader.data, [resolution |-> json_loads(redis_get(kv, rk))])
     IN /\ reader' = [reader EXCEPT !.pc = "returned", !.data = None, !.ret.data = data]
        /\ kv' = IF redis_exists(kv, rk)
                   THEN redis_set(kv, rk, redis_get(kv, rk), RESOLVED_TTL, now) ELSE kv
  /\ UNCHANGED <<now, nextId, human, resolvedOnce, caller, probe, api, graph, polled, run, trace, origin>>

\* get_hitl_status lines 140-144: GET hitl_resolved:{id}; embed it when present.
get_hitl_status_resolved ==
  /\ Delivered
  /\ reader.pc = "get_resolved"
  /\ LET resolved_raw == redis_get(kv, hitl_resolved_key(reader.session_id))
         data == IF ~redis_exists(kv, hitl_resolved_key(reader.session_id)) THEN reader.data
                 ELSE Merge(reader.data, [resolution |-> json_loads(resolved_raw)])
     IN reader' = [reader EXCEPT !.pc = "returned", !.data = None, !.ret.data = data]
  /\ UNCHANGED <<now, kv, nextId, human, resolvedOnce, caller, probe, api, graph, polled, run, trace, origin>>

\* KEYS returns the matching keys in no particular order: any arrangement of them.
KeyOrders(store) ==
  LET ks == redis_keys_hitl(store)
      n == Cardinality(ks)
  IN {f \in [1..n -> ks] : \A a, b \in 1..n : f[a] = f[b] => a = b}

\* list_pending_hitl lines 171-183: the summary built from one key's record.
list_summary(store, key, t) ==
  LET data == json_loads(redis_get(store, key)) IN
    [session_id |-> data.session_id,
     reason |-> data.reason,
     created_at |-> data.created_at,
     age_seconds |-> t - data.created_at,
     current_url |-> data.current_url,
     screenshot_b64 |-> data.screenshot_b64,
     status |-> data.status,
     ttl_seconds |-> redis_ttl(store, key, t)]

\* list_pending_hitl lines 161-183: the loop over the keys, skipping a key that
\* is gone and a record marked resolved.
RECURSIVE list_scan(_, _, _)
list_scan(store, keys, t) ==
  IF keys = <<>> THEN <<>>
  ELSE IF ~redis_exists(store, Head(keys))
         \/ json_loads(redis_get(store, Head(keys))).status = "resolved"
       THEN list_scan(store, Tail(keys), t)
       ELSE <<list_summary(store, Head(keys), t)>> \o list_scan(store, Tail(keys), t)

\* A slip in line 186: reverse=True left out, oldest first.
RECURSIVE sort_oldest_first(_)
sort_oldest_first(sessions) ==
  IF sessions = <<>> THEN <<>>
  ELSE LET x == sessions[Len(sessions)]
           front == sort_oldest_first(SubSeq(sessions, 1, Len(sessions) - 1))
           keep == SelectSeq(front, LAMBDA y : y.created_at <= x.created_at)
           move == SelectSeq(front, LAMBDA y : y.created_at > x.created_at)
       IN keep \o <<x>> \o move

\* sessions.sort(key=created_at, reverse=True), line 186: newest first, and
\* summaries of equal created_at stay in the order they had (the sort is stable).
RECURSIVE sort_newest_first(_)
sort_newest_first(sessions) ==
  IF sessions = <<>> THEN <<>>
  ELSE LET x == sessions[Len(sessions)]
           front == sort_newest_first(SubSeq(sessions, 1, Len(sessions) - 1))
           keep == SelectSeq(front, LAMBDA y : y.created_at >= x.created_at)
           move == SelectSeq(front, LAMBDA y : y.created_at < x.created_at)
       IN keep \o <<x>> \o move

\* The store operations of list_pending_hitl that can fail: the KEYS call of
\* line 160, the GET of line 162 for the j-th key, and the TTL of line 172 for the
\* j-th key, which is only called for a record that is there and not resolved.
ListFailures(store, keys) ==
  {[op |-> "none", at |-> 0], [op |-> "keys", at |-> 0]}
    \cup {[op |-> "get", at |-> j] : j \in 1..Len(keys)}
    \cup {[op |-> "ttl", at |-> j] : j \in {i \in 1..Len(keys) :
              list_scan(store, <<keys[i]>>, 0) # <<>>}}

\* list_pending_hitl lines 157-191: what the call returns. Without a failure the
\* sorted summaries; a failing KEYS leaves the list of line 157 empty; a failing
\* GET or TTL at the j-th key jumps to the handler of line 188 with the summaries
\* appended for the keys before it, past the sort of line 186.
list_result(store, keys, fail, t) ==
  IF fail.op = "none" THEN sort_newest_first(list_scan(store, keys, t))
  ELSE IF fail.op = "keys" THEN <<>>
  ELSE list_scan(store, SubSeq(keys, 1, fail.at - 1), t)

\* list_pending_hitl lines 159-191: scan, summarise, sort, return; an exception
\* of a store operation is logged and the list built so far is returned.
list_pending_hitl(keys, fail) ==
  /\ Delivered
  /\ reader.pc = "idle"
  /\ reader' = [IdleReader EXCEPT !.pc = "returned", !.op = "list",
                  !.failed = fail.op,
                  !.ret = list_result(kv, keys, fail, now)]
  /\ UNCHANGED <<now, kv, nextId, human, resolvedOnce, caller, probe, api, graph, polled, run, trace, origin>>

\* A slip in line 201: only the pending key is deleted.
cancel_keys_pending_only(session_id) == {hitl_key(session_id)}

\* cancel_hitl line 201: the keys handed to the one DEL command.
cancel_keys(session_id) == {hitl_key(session_id), hitl_resolved_key(session_id)}

\* cancel_hitl lines 200-203: DEL both keys; True when something was deleted.
cancel_hitl(session_id) ==
  /\ Delivered
  /\ reader.pc = "idle"
  /\ LET keys == cancel_keys(session_id) IN
       /\ kv' = redis_delete(kv, keys)
       /\ reader' = [IdleReader EXCEPT !.pc = "returned", !.op = "cancel",
                       !.session_id = session_id, !.ret = redis_deleted(kv, keys) > 0]
  /\ UNCHANGED <<now, nextId, human, resolvedOnce, caller, probe, api, graph, polled, run, trace, origin>>

\* ------------------------------------------- app/api/hitl.py: POST /resolve
\* A validated ResolveRequest (lines 28-32): session_id, and those of the three
\* optional fields the request supplied; a field left out is None.
ResolveFields == {"captcha_token", "cookies", "manual_data"}
RequestFields ==
  { [f \in {} |-> ""],
    [captcha_token |-> ""],
    [captcha_token |-> "tokA", cookies |-> <<"SID=9">>],
    [manual_data |-> "note"] }
ResolveRequests == {Merge([session_id |-> s], b) : s \in SessionIds, b \in RequestFields}

\* resolve_session lines 105-111: the fields that are not None, as a dict.
resolution_of(body) == [f \in (DOMAIN body) \cap ResolveFields |-> body[f]]

\* A slip in line 113: the test is left out.
resolve_rejects_never(resolution) == FALSE

\* resolve_session line 113: `if not resolution`.
resolve_rejects(resolution) == DOMAIN resolution = {}

\* resolve_session lines 105-117: the resolution is put together and a request
\* without one is answered 422; nothing has touched the store yet.
resolve_session_request(body) ==
  /\ Delivered
  /\ api.pc = "idle"
  /\ LET resolution == resolution_of(body) IN
       api' = IF resolve_rejects(resolution)
                THEN [pc |-> "responded", session_id |-> body.session_id,
                      resolution |-> resolution, http |-> 422]
                ELSE [pc |-> "calling", session_id |-> body.session_id,
                      resolution |-> resolution, http |-> 0]
  /\ UNCHANGED <<now, kv, nextId, human, reader, resolvedOnce, caller, probe, polled, run,
                 trace, origin, graph>>

\* resolve_session line 120: the call of resume_hitl, up to its GET.
resolve_session_call(p) ==
  /\ api.pc = "calling"
  /\ resume_hitl_get(p, api.session_id, api.resolution)

\* resolve_session lines 135-140: a store operation of resume_hitl raises
\* (before the GET, or at one of the two SETs) and the answer is 500.
resolve_session_store_error(p) ==
  /\ api.pc = "calling"
  /\ human[p].pc \in {"idle", "set_resolved", "set_pending"}
  /\ human' = [human EXCEPT ![p] = IdleHuman]
  /\ api' = [api EXCEPT !.pc = "responded", !.http = 500]
  /\ UNCHANGED <<now, kv, nextId, reader, resolvedOnce, caller, probe, polled, run,
                 trace, origin, graph>>

\* resolve_session lines 121-134: 200 when resume_hitl returned, 404 on KeyError.
resolve_session_respond(p) ==
  /\ api.pc = "calling"
  /\ human[p].pc \in Ended
  /\ api' = [api EXCEPT !.pc = "responded",
                        !.http = IF human[p].pc = "KeyError" THEN 404 ELSE 200]
  /\ human' = [human EXCEPT ![p] = IdleHuman]
  /\ UNCHANGED <<now, kv, nextId, reader, resolvedOnce, caller, probe, polled, run,
                 trace, origin, graph>>

\* The client takes the response.
resolve_done ==
  /\ api.pc = "responded"
  /\ api' = IdleApi
  /\ UNCHANGED <<now, kv, nextId, human, reader, resolvedOnce, caller, probe, polled, run,
                 trace, origin, graph>>

\* ------------------------------------------- app/agents/base.py: BaseGraph
\* What a caller passes to run: an AgentState with some of its keys.
InitialStates ==
  {Merge([input |-> "task"], x) :
     x \in { [f \in {} |-> ""],
             [task_type |-> "json_extraction"],
             [client_id |-> "12"],
             [task_type |-> "form_filing", intermediate_steps |-> "list", output |-> "draft"],
             [task_type |-> "email_drafting", client_id |-> "7"],
             [task_type |-> "json_extraction", hitl_needed |-> TRUE, hitl_reason |-> "review"] }}

\* What the nodes of a graph can leave in the state that ainvoke returns: an
\* output, a suspension (as playwright_agent_node sets it, lines 152-159), an
\* error noted without raising (lines 161-162), a steps entry that is no list.
NodeUpdates ==
  { [output |-> "done"],
    [hitl_needed |-> TRUE, hitl_reason |-> "CAPTCHA", hitl_data |-> "dict"],
    [error |-> "TimeoutError: goto"],
    [output |-> "done", intermediate_steps |-> None],
    [hitl_needed |-> TRUE, hitl_data |-> "dict", intermediate_steps |-> None] }

\* How opening the database session and committing the row can end (lines 308-320).
DbOutcomes == {"ok", "connect_error", "commit_error"}

\* run line 267 and line 287: the status handed to _save_result.
save_status(state, exc) ==
  IF exc # "" THEN "failed" ELSE IF state.hitl_needed THEN "hitl_pending" ELSE "success"

\* A slip in lines 322-323: _save_result lets the database error out.
save_raises_db_error(db) == db # "ok"

\* _save_result lines 307-323: everything is inside try/except Exception.
save_raises(db) == FALSE

\* run lines 225-242: the defaults under the caller's keys.
graph_start(initial) ==
  /\ graph.pc = "idle"
  /\ LET state == Merge(GraphDefaults, initial) IN
       graph' = [pc |-> "invoke", state |-> state,
                 task_type |-> IF "task_type" \in DOMAIN state THEN state.task_type
                                                                ELSE "unknown",
                 exc |-> "", saves |-> <<>>]
  /\ UNCHANGED <<now, kv, nextId, human, reader, resolvedOnce, caller, probe, polled, run,
                 trace, origin, api>>

\* run line 243: the graph raises, or returns the final state.
graph_invoke(raises, update) ==
  /\ graph.pc = "invoke"
  /\ graph' = IF raises
                THEN [graph EXCEPT !.pc = "except", !.exc = "RuntimeError: node failed"]
                ELSE [graph EXCEPT !.pc = "after", !.state = Merge(graph.state, update)]
  /\ UNCHANGED <<now, kv, nextId, human, reader, resolvedOnce, caller, probe, polled, run,
                 trace, origin, api>>

\* run lines 244-254: the steps are logged; iterating a steps entry that is
\* None raises TypeError.
graph_after ==
  /\ graph.pc = "after"
  /\ graph' = IF graph.state.intermediate_steps = None
                THEN [graph EXCEPT !.pc = "except", !.exc = "TypeError: not iterable"]
                ELSE [graph EXCEPT !.pc = "save"]
  /\ UNCHANGED <<now, kv, nextId, human, reader, resolvedOnce, caller, probe, polled, run,
                 trace, origin, api>>

\* run lines 255-272: the save of the try block, then return state (line 292).
graph_save(db) ==
  /\ graph.pc = "save"
  /\ LET attempt == [status |-> save_status(graph.state, ""), task_type |-> graph.task_type,
                     stored |-> db = "ok"]
     IN graph' = IF save_raises(db)
                   THEN [graph EXCEPT !.pc = "except", !.exc = "OperationalError",
                                      !.saves = Append(@, attempt)]
                   ELSE [graph EXCEPT !.pc = "returned", !.saves = Append(@, attempt)]
  /\ UNCHANGED <<now, kv, nextId, human, reader, resolvedOnce, caller, probe, polled, run,
                 trace, origin, api>>

\* run lines 274-292: the error goes into state["error"], a failed TaskResult
\* is saved, the state is returned.
graph_except(db) ==
  /\ graph.pc = "except"
  /\ LET attempt == [status |-> save_status(graph.state, graph.exc),
                     task_type |-> graph.task_type, stored |-> db = "ok"]
     IN graph' = [graph EXCEPT !.pc = IF save_raises(db) THEN "raised" ELSE "returned",
                               !.state = [graph.state EXCEPT !.error = graph.exc],
                               !.saves = Append(@, attempt)]
  /\ UNCHANGED <<now, kv, nextId, human, reader, resolvedOnce, caller, probe, polled, run,
                 trace, origin, api>>

\* The caller of run takes the state or the exception.
graph_done ==
  /\ graph.pc \in {"returned", "raised"}
  /\ graph' = IdleGraph
  /\ UNCHANGED <<now, kv, nextId, human, reader, resolvedOnce, caller, probe, polled, run,
                 trace, origin, api>>

\* A client polling get_hitl_status keeps the response next to the one before,
\* and the session ids for which its cancel_hitl calls returned true.
NotPolled ==
  [session_id |-> NoSession, at |-> 0, found |-> FALSE, data |-> <<>>, age_seconds |-> 0,
   cancelled |-> {}]

poll_done ==
  /\ reader.pc = "returned"
  /\ reader.op = "status"
  /\ polled' = [session_id |-> reader.session_id, at |-> reader.at, found |-> reader.ret.found,
                data |-> reader.ret.data, age_seconds |-> reader.ret.age_seconds,
                cancelled |-> polled.cancelled]
  /\ reader' = IdleReader
  /\ UNCHANGED <<now, kv, nextId, human, resolvedOnce, caller, probe, api, graph, run, trace, origin>>

cancel_done ==
  /\ reader.pc = "returned"
  /\ reader.op = "cancel"
  /\ polled' = [polled EXCEPT !.cancelled =
                  IF reader.ret THEN @ \cup {reader.session_id} ELSE @]
  /\ reader' = IdleReader
  /\ UNCHANGED <<now, kv, nextId, human, resolvedOnce, caller, probe, api, graph, run, trace, origin>>

\* The caller of pause / status / list / cancel takes the return value.
reader_done ==
  /\ reader.pc \in Ended
  /\ reader' = IdleReader
  /\ UNCHANGED <<now, kv, nextId, human, resolvedOnce, caller, probe, api, graph, polled, run, trace, origin>>

\* --------------------------------------------------------- playwright_tool
HITL_SELECTORS ==
  << "#captcha", ".g-recaptcha", ".h-captcha", "#loginForm", "#login-form",
     "[name=captcha]", ".captcha-container", "input[name=username]:not([value])" >>

Selectors == {HITL_SELECTORS[j] : j \in 1..Len(HITL_SELECTORS)}

\* A rendered page, as the detection sees it: what probing each selector gives.
\*   absent   query_selector returns None      hidden  the element it returns (the
\*                                                      first match) is not visible
\*   visible  the element is visible           error   the probe raises
PageWith(f) == [sel \in Selectors |-> IF sel \in DOMAIN f THEN f[sel] ELSE "absent"]

\* A slip in line 73: the element's visibility is not asked.
RECURSIVE check_from_any_element(_, _)
check_from_any_element(page, j) ==
  IF j > Len(HITL_SELECTORS) THEN [hit |-> FALSE, matched |-> ""]
  ELSE IF page[HITL_SELECTORS[j]] \in {"visible", "hidden"}
         THEN [hit |-> TRUE, matched |-> HITL_SELECTORS[j]]
         ELSE check_from_any_element(page, j + 1)

\* A slip in lines 70-77: the try encloses the loop, a probe that raises ends it.
RECURSIVE check_from_error_ends(_, _)
check_from_error_ends(page, j) ==
  IF j > Len(HITL_SELECTORS) \/ page[HITL_SELECTORS[j]] = "error"
    THEN [hit |-> FALSE, matched |-> ""]
  ELSE IF page[HITL_SELECTORS[j]] = "visible"
         THEN [hit |-> TRUE, matched |-> HITL_SELECTORS[j]]
         ELSE check_from_error_ends(page, j + 1)

\* _check_for_hitl lines 70-78: the first selector, in list order, whose element
\* is present and visible; a probe that raises is skipped.
RECURSIVE check_from(_, _)
check_from(page, j) ==
  IF j > Len(HITL_SELECTORS) THEN [hit |-> FALSE, matched |-> ""]
  ELSE IF page[HITL_SELECTORS[j]] = "visible"
         THEN [hit |-> TRUE, matched |-> HITL_SELECTORS[j]]
         ELSE check_from(page, j + 1)

_check_for_hitl(page) == check_from(page, 1)

\* What probing one selector can give (lines 72-73, 76), and every page.
ProbeOutcomes == {"absent", "hidden", "visible", "error"}
DetectPages == [Selectors -> ProbeOutcomes]

IdleProbe == [pc |-> "idle", page |-> PageWith(<<>>), ret |-> [hit |-> FALSE, matched |-> ""]]

\* A call of _check_for_hitl (line 65) on the page it was handed.
check_call ==
  /\ probe.pc = "call"
  /\ probe' = [probe EXCEPT !.pc = "returned", !.ret = _check_for_hitl(probe.page)]
  /\ UNCHANGED <<now, kv, nextId, human, reader, resolvedOnce, caller, polled, run, trace,
                 origin, api, graph>>

\* Pages the runs meet: nothing to see; a hidden captcha container and a probe
\* that raises; a visible reCAPTCHA behind a hidden container, a later signal
\* visible too.
RunPages ==
  { PageWith(<<>>),
    PageWith([x \in {"#captcha", ".h-captcha"} |-> IF x = "#captcha" THEN "hidden" ELSE "error"]),
    PageWith([x \in {"#captcha", ".g-recaptcha", ".captcha-container"} |->
                IF x = "#captcha" THEN "hidden" ELSE "visible"]) }

\* Action types: the eight run_browser knows, and one it does not.
KnownTypes ==
  {"navigate", "fill", "click", "wait_for_selector", "get_text", "get_attribute",
   "screenshot", "get_all_text"}
WaitingTypes == {"navigate", "fill", "click", "wait_for_selector"}
InputTypes == {"click", "scroll"}

\* An action descriptor: its type, and its place in the caller's list (a key the
\* engine ignores, kept through the checkpoint like every other key).
Descriptor(type, n) ==
  IF type = "navigate" THEN [type |-> type, n |-> n, url |-> "https://portal/form"]
  ELSE [type |-> type, n |-> n]

RECURSIVE ListsOfLen(_)
ListsOfLen(len) ==
  IF len = 0 THEN {<<>>}
  ELSE {Append(l, Descriptor(t, len)) : l \in ListsOfLen(len - 1), t \in InputTypes}

ActionLists == UNION {ListsOfLen(len) : len \in 0..MaxActions}

\* Lists that move the page: navigate actions, and the unknown type.
NavTypes == {"navigate", "scroll"}

RECURSIVE NavListsOfLen(_)
NavListsOfLen(len) ==
  IF len = 0 THEN {<<>>}
  ELSE {Append(l, Descriptor(t, len)) : l \in NavListsOfLen(len - 1), t \in NavTypes}

NavLists == UNION {NavListsOfLen(len) : len \in 0..MaxActions}

\* How the branch of one action can end (lines 180-240, 268-276, 304):
\*   ok       the branch ran to its end         skip   unknown type, logged
\*   timeout  PlaywrightTimeoutError in a wait  error  any other exception
Outcomes(type) ==
  IF type \notin KnownTypes THEN {"skip"}
  ELSE IF type \in WaitingTypes THEN {"ok", "timeout", "error"}
  ELSE IF type = "screenshot" THEN {"ok"}
  ELSE {"ok", "error"}

\* context.cookies() at suspension: the cookie jar of the page.
CookieJars == {<<"JSESSIONID=1">>}

BrowserResult ==
  [success |-> FALSE, hitl_needed |-> FALSE, reason |-> <<"", "">>, session_id |-> NoSession,
   current_url |-> "", error |-> ""]

\* load: what reading the saved session gave; jar: the cookies in the browser
\* context; visited: the url of the first page.goto.
IdleRun ==
  [pc |-> "idle", session_id |-> NoSession, url |-> "", actions_to_run |-> <<>>, loaded |-> FALSE,
   load |-> "none", cookies |-> <<>>, jar |-> <<>>, visited |-> "",
   i |-> 0, pw |-> "none", browser |-> "none", context |-> "none",
   page_url |-> "", matched |-> "", final |-> FALSE, result |-> BrowserResult]

Event(ev, idx, act, out) == [ev |-> ev, idx |-> idx, act |-> act, out |-> out]
NoAct == Descriptor("", 0)

\* A slip in line 247: the whole list is stored again.
remaining_actions_all(actions_to_run, i) == actions_to_run

\* A slip in line 247: actions_to_run[i:], the triggering action kept.
remaining_actions_from_i(actions_to_run, i) == SubSeq(actions_to_run, i, Len(actions_to_run))

\* actions_to_run[i + 1:] (line 247), i counting from 1 here.
remaining_actions(actions_to_run, i) == SubSeq(actions_to_run, i + 1, Len(actions_to_run))

\* The loop's next position after the action at i (line 176).
NextPc(r) == IF r.i < Len(r.actions_to_run) THEN "action" ELSE "final_check"

\* Without the with block nothing is stopped when an exception leaves.
pw_exit_nothing(r) == r

\* Leaving `async with async_playwright()` (line 150) stops the driver, which
\* closes whatever browser and context are still open.
pw_exit(r) ==
  [r EXCEPT !.pw = "stopped",
            !.browser = IF @ = "open" THEN "closed" ELSE @,
            !.context = IF @ = "open" THEN "closed" ELSE @]

\* finally (lines 314-316), then the end of the with block, then return result.
finally_return(r) ==
  pw_exit([r EXCEPT !.pc = "returned", !.context = "closed", !.browser = "closed"])

TeardownEvents ==
  << Event("context.close", 0, NoAct, ""), Event("browser.close", 0, NoAct, ""),
     Event("pw.exit", 0, NoAct, "") >>

\* A slip in lines 304-306: the exception is swallowed without a trace.
except_exception_silent(r, what) == r

\* except Exception (lines 304-312): the error is recorded in the result.
except_exception(r, what) ==
  [r EXCEPT !.result.error = what, !.result.current_url = r.page_url]

\* _load_session_from_redis (lines 87-99) behind `if session_id` (line 137):
\*   none     no session id was given      found    the record was read
\*   missing  GET gave nothing             error    the read raised, None returned
load_outcome(store, session_id, load) ==
  IF session_id = NoSession THEN "none"
  ELSE IF load # "ok" THEN "error"
  ELSE IF redis_exists(store, hitl_key(session_id)) THEN "found" ELSE "missing"

\* A slip in line 145: the saved url is not taken.
start_url_supplied(found, saved, url) == url

\* url = saved_session.get("current_url", url), line 145, under `if saved_session`.
start_url(found, saved, url) ==
  IF found /\ "current_url" \in DOMAIN saved THEN saved.current_url ELSE url

\* _apply_cookies (lines 81-84, 165-166): what the browser context holds after it.
apply_cookies(cookies) == cookies

\* run_browser lines 132-148: the locals after the restore block.
run_started(session_id, load) ==
  LET key == hitl_key(session_id)
      found == load_outcome(kv, session_id, load) = "found"
      saved == json_loads(redis_get(kv, key))
  IN [IdleRun EXCEPT
        !.pc = "setup",
        !.session_id = session_id,
        !.loaded = found,
        !.load = load_outcome(kv, session_id, load),
        !.actions_to_run =
           IF found /\ "actions_remaining" \in DOMAIN saved
             THEN saved.actions_remaining ELSE caller.actions,
        !.url = start_url(found, saved, caller.url),
        !.cookies = IF found /\ "cookies" \in DOMAIN saved THEN saved.cookies ELSE <<>>]

\* A slip in lines 141-143: the saved session's remaining actions are not taken.
run_start_keeps_list(session_id, load) ==
  /\ run.pc = "idle"
  /\ run' = [run_started(session_id, load) EXCEPT !.actions_to_run = caller.actions]
  /\ trace' = <<>>
  /\ UNCHANGED <<now, kv, nextId, human, reader, resolvedOnce, caller, probe, api, graph, polled, origin>>

\* A slip in lines 147-148: a session that cannot be loaded ends the invocation.
run_start_needs_session(session_id, load) ==
  /\ run.pc = "idle"
  /\ run' = IF load_outcome(kv, session_id, load) \in {"missing", "error"}
              THEN [run_started(session_id, load) EXCEPT
                      !.pc = "returned", !.result.error = "session not found"]
              ELSE run_started(session_id, load)
  /\ trace' = <<>>
  /\ UNCHANGED <<now, kv, nextId, human, reader, resolvedOnce, caller, probe, api, graph, polled, origin>>

\* A slip in lines 93-95: the saved session is taken out of the store when read.
store_after_load_consumed(store, session_id) ==
  redis_delete(store, {hitl_key(session_id)})

\* _load_session_from_redis lines 92-96: the store after it; a GET and nothing else.
store_after_load(store, session_id) == store

\* run_browser lines 132-148: a fresh result; the saved session, when one is
\* asked for and found, replaces the action list and the starting url.
run_start(session_id, load) ==
  /\ run.pc = "idle"
  /\ run' = run_started(session_id, load)
  /\ kv' = store_after_load(kv, session_id)
  /\ trace' = <<>>
  /\ UNCHANGED <<now, nextId, human, reader, resolvedOnce, caller, probe, api, graph, polled, origin>>

\* A slip in lines 172-176: the detection is run on the starting page.
after_goto_checked(r) == [r EXCEPT !.i = 0, !.pc = "check"]

\* run_browser lines 172-178: after the first navigation the loop starts at
\* the first action, or is passed over when the list is empty.
after_goto(r) ==
  [r EXCEPT !.i = 1,
            !.pc = IF r.actions_to_run = <<>> THEN "final_check" ELSE "action"]

\* run_browser lines 150-173: launch, context, cookies, page, first navigation.
\* `fail` names the step that raises, if any. Only the navigation is inside try.
run_setup(fail) ==
  /\ run.pc = "setup"
  /\ fail = "add_cookies" => run.cookies # <<>>
  /\ LET started == [run EXCEPT !.pw = "started"]
         launched == [started EXCEPT !.browser = "open"]
         created == [launched EXCEPT !.context = "open"]
         raised(r) == pw_exit([r EXCEPT !.pc = "raised"])
         injected == [created EXCEPT !.jar = apply_cookies(run.cookies)]
         opening == <<Event("launch", 0, NoAct, ""), Event("new_context", 0, NoAct, "")>>
                      \o (IF run.cookies # <<>> THEN <<Event("add_cookies", 0, NoAct, "")>>
                                               ELSE <<>>)
     IN CASE fail = "launch" ->
               /\ run' = raised(started)
               /\ trace' = <<Event("pw.exit", 0, NoAct, "")>>
          [] fail = "new_context" ->
               /\ run' = raised(launched)
               /\ trace' = <<Event("launch", 0, NoAct, ""), Event("pw.exit", 0, NoAct, "")>>
          [] fail = "add_cookies" ->
               /\ run' = raised(created)
               /\ trace' = <<Event("launch", 0, NoAct, ""), Event("new_context", 0, NoAct, ""),
                             Event("pw.exit", 0, NoAct, "")>>
          [] fail = "new_page" ->
               /\ run' = raised(injected)
               /\ trace' = opening \o <<Event("pw.exit", 0, NoAct, "")>>
          [] fail = "goto" ->
               /\ run' = finally_return(
                           except_exception([injected EXCEPT !.visited = run.url], "goto"))
               /\ trace' = opening \o <<Event("goto", 0, NoAct, "error")>> \o TeardownEvents
          [] fail = "none" ->
               /\ run' = after_goto([injected EXCEPT !.visited = run.url,
                                                     !.page_url = run.url,
                                                     !.result.current_url = run.url])
               /\ trace' = opening \o <<Event("goto", 0, NoAct, "ok")>>
  /\ UNCHANGED <<now, kv, nextId, human, reader, resolvedOnce, caller, probe, api, graph, polled, origin>>

SetupFailures == {"none", "launch", "new_context", "add_cookies", "new_page", "goto"}

\* page.goto of a navigate action (lines 181-187) moves the page to the action's
\* url; the other actions are taken to leave the page where it is.
after_action(r, action) ==
  IF action.type = "navigate"
    THEN [r EXCEPT !.pc = "check", !.page_url = action.url, !.result.current_url = action.url]
    ELSE [r EXCEPT !.pc = "check"]

\* A slip in line 276: break instead of continue.
after_timeout_break(r) == [r EXCEPT !.pc = "final_check"]

\* except PlaywrightTimeoutError (lines 268-276): logged, then `continue`: the
\* check of line 243 is passed over and the loop takes the next action.
after_timeout(r) == [r EXCEPT !.pc = NextPc(r), !.i = r.i + 1]

\* run_browser lines 176-240 and 268-276, 304-312: the branch of action i.
run_action(out) ==
  /\ run.pc = "action"
  /\ LET action == run.actions_to_run[run.i]
         ev == Event("action", run.i, action, out)
     IN /\ out \in Outcomes(action.type)
        /\ CASE out \in {"ok", "skip"} ->
                  /\ run' = after_action(run, action)
                  /\ trace' = Append(trace, ev)
             [] out = "timeout" ->
                  /\ run' = after_timeout(run)
                  /\ trace' = Append(trace, ev)
             [] out = "error" ->
                  /\ run' = finally_return(except_exception(run, "action"))
                  /\ trace' = Append(trace, ev) \o TeardownEvents
  /\ origin' = IF run.loaded /\ run.i = 1 /\ origin[run.session_id].resumes < 2
                 THEN [origin EXCEPT ![run.session_id].resumes = @ + 1]
                 ELSE origin
  /\ UNCHANGED <<now, kv, nextId, human, reader, resolvedOnce, caller, probe, api, graph, polled>>

\* A slip in lines 244-266: the hit is recorded but the loop goes on.
run_check_goes_on(page) ==
  /\ run.pc = "check"
  /\ LET d == _check_for_hitl(page) IN
       /\ run' = [run EXCEPT !.pc = NextPc(run), !.i = run.i + 1, !.matched = d.matched]
       /\ trace' = Append(trace, Event("check", run.i, NoAct, d.matched))
  /\ UNCHANGED <<now, kv, nextId, human, reader, resolvedOnce, caller, probe, api, graph, polled, origin>>

\* run_browser lines 242-244: the detection check after the action at i.
run_check(page) ==
  /\ run.pc = "check"
  /\ LET d == _check_for_hitl(page) IN
       /\ run' = IF d.hit
                   THEN [run EXCEPT !.pc = "suspend", !.matched = d.matched, !.final = FALSE]
                   ELSE [run EXCEPT !.pc = NextPc(run), !.i = run.i + 1]
       /\ trace' = Append(trace, Event("check", run.i, NoAct, d.matched))
  /\ UNCHANGED <<now, kv, nextId, human, reader, resolvedOnce, caller, probe, api, graph, polled, origin>>

\* A slip in lines 279-302: the result of the final check is not looked at.
run_final_check_ignored(page) ==
  /\ run.pc = "final_check"
  /\ LET d == _check_for_hitl(page) IN
       /\ run' = finally_return([run EXCEPT !.result.success = TRUE,
                                            !.result.current_url = run.page_url])
       /\ trace' = Append(trace, Event("final_check", 0, NoAct, d.matched)) \o TeardownEvents
  /\ UNCHANGED <<now, kv, nextId, human, reader, resolvedOnce, caller, probe, api, graph, polled, origin>>

\* run_browser lines 278-280, 301-302: the check after the loop, and success.
run_final_check(page) ==
  /\ run.pc = "final_check"
  /\ LET d == _check_for_hitl(page) IN
       IF d.hit
         THEN /\ run' = [run EXCEPT !.pc = "suspend", !.matched = d.matched, !.final = TRUE]
              /\ trace' = Append(trace, Event("final_check", 0, NoAct, d.matched))
         ELSE /\ run' = finally_return([run EXCEPT !.result.success = TRUE,
                                                   !.result.current_url = run.page_url])
              /\ trace' = Append(trace, Event("final_check", 0, NoAct, "")) \o TeardownEvents
  /\ UNCHANGED <<now, kv, nextId, human, reader, resolvedOnce, caller, probe, api, graph, polled, origin>>

\* A slip in lines 261-266: the session id is left out of the result.
suspended_unnamed(r, new_session_id) ==
  [r EXCEPT !.result.hitl_needed = TRUE, !.result.current_url = r.page_url]

\* run_browser lines 261-266 and 294-299: the result of a suspension.
suspended(r, new_session_id) ==
  [r EXCEPT !.result.hitl_needed = TRUE,
            !.result.reason =
               IF r.final THEN <<"CAPTCHA or login wall at end", r.matched>>
                          ELSE <<"CAPTCHA or login wall detected", r.matched>>,
            !.result.session_id = new_session_id,
            !.result.current_url = r.page_url]

\* run_browser lines 245-266 and 281-299: screenshot, cookies, the session
\* record, pause_for_hitl, the result. `fail` names the call that raises, if any.
run_suspend(fail, cookies) ==
  /\ run.pc = "suspend"
  /\ LET left == IF run.final THEN <<>> ELSE remaining_actions(run.actions_to_run, run.i)
         session_data ==
           [cookies |-> cookies, current_url |-> run.page_url, screenshot_b64 |-> "png",
            actions_remaining |-> left, matched_selector |-> run.matched]
         reason == IF run.final THEN <<"HITL trigger at end of actions", run.matched>>
                   ELSE <<"HITL trigger detected", run.matched>>
     IN CASE fail = "none" ->
               /\ nextId <= MaxSessions
               /\ kv' = pause_for_hitl(kv, nextId, reason, session_data, now)
               /\ nextId' = nextId + 1
               /\ origin' = [origin EXCEPT ![nextId] =
                               [list |-> run.actions_to_run,
                                k |-> IF run.final THEN Len(run.actions_to_run) ELSE run.i,
                                resumes |-> 0,
                                parent |-> IF run.loaded THEN run.session_id ELSE NoSession,
                                final |-> run.final]]
               /\ run' = finally_return(suspended(run, nextId))
               /\ trace' = trace \o <<Event("screenshot", 0, NoAct, ""),
                                      Event("cookies", 0, NoAct, "ok"),
                                      Event("pause_for_hitl", 0, NoAct, "ok")>> \o TeardownEvents
          [] fail = "cookies" ->
               /\ run' = finally_return(except_exception(run, "cookies"))
               /\ trace' = trace \o <<Event("screenshot", 0, NoAct, ""),
                                      Event("cookies", 0, NoAct, "error")>> \o TeardownEvents
               /\ UNCHANGED <<kv, nextId, origin>>
          [] fail = "pause_for_hitl" ->
               /\ run' = finally_return(except_exception(run, "pause_for_hitl"))
               /\ trace' = trace \o <<Event("screenshot", 0, NoAct, ""),
                                      Event("cookies", 0, NoAct, "ok"),
                                      Event("pause_for_hitl", 0, NoAct, "error")>> \o TeardownEvents
               /\ UNCHANGED <<kv, nextId, origin>>
  /\ UNCHANGED <<now, human, reader, resolvedOnce, caller, probe, api, graph, polled>>

SuspendFailures == {"none", "cookies", "pause_for_hitl"}

\* The caller of run_browser takes the result or the exception.
run_done ==
  /\ run.pc \in {"returned", "raised"}
  /\ run' = IdleRun
  /\ trace' = <<>>
  /\ UNCHANGED <<now, kv, nextId, human, reader, resolvedOnce, caller, probe, api, graph, polled, origin>>

InitStore ==
  /\ now = 0
  /\ kv = <<>>
  /\ nextId = 1
  /\ human = [p \in {1} |-> IdleHuman]
  /\ reader = IdleReader
  /\ resolvedOnce = [s \in SessionIds |-> FALSE]
  /\ caller = [url |-> "https://portal/start", actions |-> <<>>]
  /\ run = IdleRun
  /\ trace = <<>>
  /\ origin = [s \in SessionIds |-> NoOrigin]
  /\ polled = NotPolled
  /\ probe = IdleProbe
  /\ api = IdleApi
  /\ graph = IdleGraph

NextStore ==
  \/ \E d \in TimeSteps : Tick(d)
  \/ \E sd \in SessionDatas : CreateSession(sd)
  \/ \E p \in Humans, s \in SessionIds, r \in Resolutions : resume_hitl_get(p, s, r)
  \/ \E p \in Humans : resume_hitl_set_resolved(p)
  \/ \E p \in Humans : resume_hitl_set_pending(p)
  \/ \E p \in Humans : resume_hitl_done(p)
  \/ \E s \in SessionIds : get_hitl_status_get(s)
  \/ get_hitl_status_resolved
  \/ \E keys \in KeyOrders(kv) : \E fail \in ListFailures(kv, keys) :
       list_pending_hitl(keys, fail)
  \/ \E s \in SessionIds : cancel_hitl(s)
  \/ reader_done

vars == <<now, kv, nextId, human, reader, resolvedOnce, caller, run, trace, origin,
          polled, probe, api, graph>>

SpecStore == InitStore /\ [][NextStore]_vars

\* Two callers of resume_hitl racing on the session of one pause_for_hitl call
\* (src/script.py), with readers of its status and with time passing.
RaceSession == pause_payload(1, <<"Test", "">>, CHOOSE sd \in SessionDatas : TRUE, 0)

InitRace ==
  /\ now = 0
  /\ kv = pause_for_hitl(<<>>, 1, <<"Test", "">>, CHOOSE sd \in SessionDatas : TRUE, 0)
  /\ nextId = 2
  /\ human = [p \in {1, 2} |-> IdleHuman]
  /\ reader = IdleReader
  /\ resolvedOnce = [s \in SessionIds |-> FALSE]
  /\ caller = [url |-> "https://portal/start", actions |-> <<>>]
  /\ run = IdleRun
  /\ trace = <<>>
  /\ origin = [s \in SessionIds |-> NoOrigin]
  /\ polled = NotPolled
  /\ probe = IdleProbe
  /\ api = IdleApi
  /\ graph = IdleGraph

NextRace ==
  \/ \E d \in TimeSteps : Tick(d)
  \/ \E p \in Humans, r \in Resolutions : resume_hitl_get(p, 1, r)
  \/ \E p \in Humans : resume_hitl_set_resolved(p)
  \/ \E p \in Humans : resume_hitl_set_pending(p)
  \/ \E p \in Humans : resume_hitl_done(p)
  \/ get_hitl_status_get(1)
  \/ get_hitl_status_resolved
  \/ reader_done

SpecRace == InitRace /\ [][NextRace]_vars

\* A client polling the status of the session of one pause_for_hitl call, as
\* src/script.py does, while the session may be resolved or cancelled and time passes.
InitPoll ==
  /\ now = 0
  /\ kv = pause_for_hitl(<<>>, 1, <<"Test", "">>, CHOOSE sd \in SessionDatas : TRUE, 0)
  /\ nextId = 2
  /\ human = [p \in {1} |-> IdleHuman]
  /\ reader = IdleReader
  /\ resolvedOnce = [s \in SessionIds |-> FALSE]
  /\ caller = [url |-> "https://portal/start", actions |-> <<>>]
  /\ run = IdleRun
  /\ trace = <<>>
  /\ origin = [s \in SessionIds |-> NoOrigin]
  /\ polled = NotPolled
  /\ probe = IdleProbe
  /\ api = IdleApi
  /\ graph = IdleGraph

NextPoll ==
  \/ \E d \in TimeSteps : Tick(d)
  \/ \E p \in Humans, r \in Resolutions : resume_hitl_get(p, 1, r)
  \/ \E p \in Humans : resume_hitl_set_resolved(p)
  \/ \E p \in Humans : resume_hitl_set_pending(p)
  \/ \E p \in Humans : resume_hitl_done(p)
  \/ get_hitl_status_get(1)
  \/ get_hitl_status_resolved
  \/ poll_done
  \/ cancel_hitl(1)
  \/ cancel_done

SpecPoll == InitPoll /\ [][NextPoll]_vars

\* Runs of the engine, one after the other: the caller's list is any list of at
\* most MaxActions actions; between two runs a session may be cancelled, which
\* is to the engine what its expiry is: the record is gone. (Resolutions rewrite
\* only status and TTL, which run_browser never reads.)
InitRun ==
  /\ now = 0
  /\ kv = <<>>
  /\ nextId = 1
  /\ human = [p \in {1} |-> IdleHuman]
  /\ reader = IdleReader
  /\ resolvedOnce = [s \in SessionIds |-> FALSE]
  /\ caller \in {[url |-> "https://portal/start", actions |-> l] : l \in ActionLists}
  /\ run = IdleRun
  /\ trace = <<>>
  /\ origin = [s \in SessionIds |-> NoOrigin]
  /\ polled = NotPolled
  /\ probe = IdleProbe
  /\ api = IdleApi
  /\ graph = IdleGraph

\* The session ids a caller can hand to run_browser: none, one that a
\* pause_for_hitl call returned, or one made up (uuid4 of line 58 of
\* hitl_manager.py does not come up with an id that is already around).
GivenIds == {NoSession, UnknownSession} \cup {s \in SessionIds : s < nextId}

NextRun ==
  \/ \E s \in GivenIds, load \in {"ok", "store_error"} : run_start(s, load)
  \/ \E fail \in SetupFailures : run_setup(fail)
  \/ \E out \in {"ok", "skip", "timeout", "error"} : run_action(out)
  \/ \E page \in RunPages : run_check(page)
  \/ \E page \in RunPages : run_final_check(page)
  \/ \E fail \in SuspendFailures, cookies \in CookieJars : run_suspend(fail, cookies)
  \/ run_done
  \/ \E s \in SessionIds : cancel_hitl(s)
  \/ reader_done

SpecRun == InitRun /\ [][NextRun]_vars

\* The detection on its own: any page, one call.
InitDetect ==
  /\ now = 0
  /\ kv = <<>>
  /\ nextId = 1
  /\ human = [p \in {1} |-> IdleHuman]
  /\ reader = IdleReader
  /\ resolvedOnce = [s \in SessionIds |-> FALSE]
  /\ caller = [url |-> "https://portal/start", actions |-> <<>>]
  /\ run = IdleRun
  /\ trace = <<>>
  /\ origin = [s \in SessionIds |-> NoOrigin]
  /\ polled = NotPolled
  /\ probe \in {[IdleProbe EXCEPT !.pc = "call", !.page = pg] : pg \in DetectPages}
  /\ api = IdleApi
  /\ graph = IdleGraph

NextDetect == check_call

SpecDetect == InitDetect /\ [][NextDetect]_vars

\* The resolve endpoint in front of resume_hitl, one session created, with time
\* and cancellation.
NextApi ==
  \/ \E d \in TimeSteps : Tick(d)
  \/ \E body \in ResolveRequests : resolve_session_request(body)
  \/ \E p \in Humans : resolve_session_call(p)
  \/ \E p \in Humans : resolve_session_store_error(p)
  \/ \E p \in Humans : resume_hitl_set_resolved(p)
  \/ \E p \in Humans : resume_hitl_set_pending(p)
  \/ \E p \in Humans : resolve_session_respond(p)
  \/ resolve_done
  \/ cancel_hitl(1)
  \/ reader_done

SpecApi == InitPoll /\ [][NextApi]_vars

\* BaseGraph.run calls, one after the other.
NextGraph ==
  \/ \E initial \in InitialStates : graph_start(initial)
  \/ \E raises \in BOOLEAN, update \in NodeUpdates : graph_invoke(raises, update)
  \/ graph_after
  \/ \E db \in DbOutcomes : graph_save(db)
  \/ \E db \in DbOutcomes : graph_except(db)
  \/ graph_done

SpecGraph == InitStore /\ [][NextGraph]_vars

\* run_browser invocations on lists with navigate actions.
InitNav ==
  /\ now = 0
  /\ kv = <<>>
  /\ nextId = 1
  /\ human = [p \in {1} |-> IdleHuman]
  /\ reader = IdleReader
  /\ resolvedOnce = [s \in SessionIds |-> FALSE]
  /\ caller \in {[url |-> "https://portal/start", actions |-> l] : l \in NavLists}
  /\ run = IdleRun
  /\ trace = <<>>
  /\ origin = [s \in SessionIds |-> NoOrigin]
  /\ polled = NotPolled
  /\ probe = IdleProbe
  /\ api = IdleApi
  /\ graph = IdleGraph

SpecNav == InitNav /\ [][NextRun]_vars

\* ------------------------------------------------------------ store claims
PendingStatus(store, s) == json_loads(store[hitl_key(s)].val).status

\* C8: the status stored under hitl:{session_id} starts as pending (the first
\* record of a freshly issued id is pending, and a pending record is only ever
\* stored under a freshly issued id) and a stored status of resolved is never
\* followed by a stored status of pending, whatever create, resume, status,
\* list, cancel and expiry steps interleave.
C8_StatusMonotonic ==
  [][\A s \in SessionIds :
       LET k == hitl_key(s) IN
         /\ (k \notin DOMAIN kv /\ k \in DOMAIN kv' /\ s = nextId)
              => PendingStatus(kv', s) = "pending"
         /\ (k \notin DOMAIN kv /\ k \in DOMAIN kv' /\ PendingStatus(kv', s) = "pending")
              => (s = nextId /\ nextId' = nextId + 1)
         /\ (k \in DOMAIN kv /\ k \in DOMAIN kv' /\ PendingStatus(kv, s) = "resolved")
              => PendingStatus(kv', s) = "resolved"]_vars

\* C8 witness: a second resume_hitl, whose resolution carries status "pending",
\* has returned on an already resolved session, and the record reads resolved.
C8_Witness ==
  \E p \in Humans :
    /\ human[p].pc = "returned"
    /\ human[p].after_success
    /\ "status" \in DOMAIN human[p].resolution
    /\ hitl_key(human[p].session_id) \in DOMAIN kv
    /\ PendingStatus(kv, human[p].session_id) = "resolved"

\* C9 (as claimed): once a resume_hitl call has succeeded for a session id, no
\* step of a later resume_hitl call for that id changes the pending record, the
\* resolution record or their expiry times.
C9_ResolvedOnlyOnce ==
  [][\A p \in Humans :
       (human[p].after_success /\ human'[p].pc # human[p].pc) => kv' = kv]_vars

\* C10 (as claimed): when resume_hitl returns, the remaining TTL of
\* hitl:{session_id} is at most the TTL it had when the call began.
C10_TTLMonotonic ==
  \A p \in Humans :
    human[p].pc = "returned"
      => redis_ttl(kv, hitl_key(human[p].session_id), now) <= human[p].ttl_before

\* -------------------------------------------------------------- run claims
IsAction(e) == e.ev = "action"
IsPositive(e) == e.ev \in {"check", "final_check"} /\ e.out # ""
ActionEvents(tr) == SelectSeq(tr, IsAction)
Executed(tr) == [j \in 1..Len(ActionEvents(tr)) |-> ActionEvents(tr)[j].act]
IsPrefix(a, b) == Len(a) <= Len(b) /\ a = SubSeq(b, 1, Len(a))
FinalChecks(tr) == {j \in 1..Len(tr) : tr[j].ev = "final_check"}
RunEnded == run.pc \in {"returned", "raised"}

\* What is left of the list of the run that created session s, after action k.
Remainder(s) == SubSeq(origin[s].list, origin[s].k + 1, Len(origin[s].list))

\* C1 (as claimed): an invocation given the session id of a run that suspended
\* after action k executes exactly actions k+1..n in order, and over the life of
\* the session no second invocation executes any of them again.
C1_RoundTrip ==
  /\ (run.pc = "returned" /\ run.loaded /\ run.result.success)
       => Executed(trace) = Remainder(run.session_id)
  /\ \A s \in SessionIds : origin[s].resumes <= 1

\* C1 (amended): an invocation that is given the session id and loads its record
\* executes, in original order and each once, an initial part of actions k+1..n
\* and none of 1..k; it has executed all of k+1..n when it makes its final check.
C1_ResumePrefix ==
  run.loaded =>
    /\ IsPrefix(Executed(trace), Remainder(run.session_id))
    /\ FinalChecks(trace) # {} => Executed(trace) = Remainder(run.session_id)

\* C1 witness: a run resumed from a session suspended after action 1 of 3 has
\* returned success having executed actions 2 and 3.
C1_Witness ==
  /\ run.pc = "returned" /\ run.loaded /\ run.result.success
  /\ origin[run.session_id].k = 1 /\ Len(origin[run.session_id].list) = 3
  /\ Len(Executed(trace)) = 2

\* C2 (as claimed): after every action that succeeds, is skipped or times out,
\* the next thing the run does is a detection check, not the next action.
C2_CheckAfterEveryAction ==
  \A j \in 1..(Len(trace) - 1) :
    (IsAction(trace[j]) /\ trace[j].out \in {"ok", "skip", "timeout"})
      => trace[j + 1].ev \in {"check", "final_check"}

\* C3 (as claimed): run_browser never raises; a run in which a step failed
\* returns a result whose error field is non-empty.
C3_NeverRaises ==
  /\ run.pc # "raised"
  /\ (run.pc = "returned" /\ \E j \in 1..Len(trace) : trace[j].out = "error")
       => run.result.error # ""

C5_RemainingStored ==
  (run.pc = "returned" /\ run.result.hitl_needed) =>
    LET key == hitl_key(run.result.session_id)
        acts == ActionEvents(trace)
        n == Len(run.actions_to_run)
    IN /\ redis_exists(kv, key)
       /\ json_loads(kv[key].val).actions_remaining =
            IF FinalChecks(trace) # {} THEN <<>>
            ELSE SubSeq(run.actions_to_run, acts[Len(acts)].idx + 1, n)

\* C5 witness: a 3-action list suspended at action 2; the record holds action 3.
C5_Witness ==
  /\ run.pc = "returned" /\ run.result.hitl_needed
  /\ Len(run.actions_to_run) = 3 /\ Len(ActionEvents(trace)) = 2
  /\ FinalChecks(trace) = {}
  /\ json_loads(kv[hitl_key(run.result.session_id)].val).actions_remaining
       = <<run.actions_to_run[3]>>

\* C6: after a positive detection check an invocation executes no action: it
\* only takes the screenshot and the cookies, creates the session and tears down.
C6_SuspendedTerminal ==
  \A j \in 1..Len(trace) :
    IsPositive(trace[j]) =>
      \A l \in (j + 1)..Len(trace) :
        trace[l].ev \in {"screenshot", "cookies", "pause_for_hitl",
                         "context.close", "browser.close", "pw.exit"}

\* C6 witness: the check after action 1 of 3 was positive and the run has returned.
C6_Witness ==
  /\ run.pc = "returned" /\ Len(run.actions_to_run) = 3
  /\ \E j \in 1..Len(trace) : trace[j].ev = "check" /\ trace[j].idx = 1 /\ trace[j].out # ""

SessionStored ==
  /\ run.result.hitl_needed
  /\ redis_exists(kv, hitl_key(run.result.session_id))
  /\ json_loads(kv[hitl_key(run.result.session_id)].val).actions_remaining = <<>>

\* C7 (as claimed): success only after a negative final check, and a positive
\* final check always ends in a suspension with a stored session record.
C7_FinalCheckAlwaysSuspends ==
  run.pc = "returned" =>
    /\ run.result.success =>
         \E j \in FinalChecks(trace) : trace[j].out = ""
    /\ (\E j \in FinalChecks(trace) : trace[j].out # "") => SessionStored

\* C7 (amended): the final check is made at most once, after every action of
\* the list has been attempted; success is returned only after a negative final
\* check; a positive final check ends in a suspension with a stored record, or,
\* when taking the cookies or storing the record fails, in a failed result.
C7_FinalCheck ==
  /\ Cardinality(FinalChecks(trace)) <= 1
  /\ \A j \in FinalChecks(trace) :
       /\ Len(ActionEvents(SubSeq(trace, 1, j))) = Len(run.actions_to_run)
       /\ \A l \in (j + 1)..Len(trace) : ~IsAction(trace[l])
  /\ run.pc = "returned" =>
       /\ run.result.success =>
            \E j \in FinalChecks(trace) : trace[j].out = ""
       /\ (\E j \in FinalChecks(trace) : trace[j].out # "") =>
            \/ SessionStored /\ ~run.result.success /\ run.result.error = ""
            \/ /\ run.result.error # "" /\ ~run.result.success
               /\ ~run.result.hitl_needed /\ run.result.session_id = NoSession

\* C7 witness: a non-empty list ran through, the final check was positive and
\* the session record is stored.
C7_Witness ==
  /\ run.pc = "returned" /\ SessionStored /\ Len(run.actions_to_run) > 0
  /\ \E j \in FinalChecks(trace) : trace[j].out # ""

\* --------------------------------------------------- store claims, continued
\* p takes the step of resume_hitl that writes the resolution record of s.
WritesResolution(p, s) ==
  /\ human[p].pc = "set_resolved" /\ human'[p].pc = "set_pending"
  /\ human[p].session_id = s

\* C11: the step of resume_hitl that writes hitl_resolved:{session_id} leaves it
\* with a TTL of exactly 3600 s from that moment, whatever TTL the pending record
\* has; nothing else writes or re-expires that key; and the key never outlives
\* its expiry, so it is gone 3600 s after the last resolution wrote it.
C11_ResolvedTTL ==
  [][\A s \in SessionIds :
       LET rk == hitl_resolved_key(s) IN
         /\ (\E p \in Humans : WritesResolution(p, s))
              => (rk \in DOMAIN kv' /\ redis_ttl(kv', rk, now') = RESOLVED_TTL)
         /\ (rk \in DOMAIN kv' /\ (rk \notin DOMAIN kv \/ kv'[rk] # kv[rk]))
              => \E p \in Humans : WritesResolution(p, s)
         /\ rk \in DOMAIN kv => now < kv[rk].exp]_vars

\* C11 witness: a resolution written when the pending record had 100 s left
\* holds a TTL of 3600 s.
C11_Witness ==
  \E p \in Humans :
    /\ human[p].pc = "set_pending"
    /\ human[p].ttl_before < AUDIT_TTL
    /\ redis_ttl(kv, hitl_resolved_key(human[p].session_id), now) = RESOLVED_TTL

IsPending(store, s) ==
  hitl_key(s) \in DOMAIN store /\ PendingStatus(store, s) = "pending"

\* C12: a record that still reads pending expires exactly 1800 s after its
\* created_at: it is there at every time before and gone at every time from then
\* on, no step other than a cancellation or a resolution removes or rewrites it,
\* and get_hitl_status and list_pending_hitl leave it and its expiry as they are.
\* Once it is gone, get_hitl_status answers found=false, resume_hitl raises
\* KeyError and list_pending_hitl has no summary for it.
C12_PendingLifetime ==
  [][\A s \in SessionIds :
       LET hk == hitl_key(s) IN
         /\ IsPending(kv, s) =>
              /\ kv[hk].exp = json_loads(kv[hk].val).created_at + HITL_TTL
              /\ now < kv[hk].exp
              /\ now' # now => (hk \in DOMAIN kv' <=> now' < kv[hk].exp)
              /\ (now' = now /\ (hk \notin DOMAIN kv' \/ kv'[hk] # kv[hk]))
                   => \/ reader' # reader /\ reader'.op = "cancel" /\ reader'.session_id = s
                      \/ \E p \in Humans : human[p].pc = "set_pending" /\ human[p].session_id = s
              /\ (reader' # reader /\ reader'.op \in {"status", "list"})
                   => (hk \in DOMAIN kv' /\ kv'[hk] = kv[hk])
         /\ hk \notin DOMAIN kv =>
              /\ (reader.pc = "idle" /\ reader'.op = "status" /\ reader'.session_id = s)
                   => (reader'.pc = "returned" /\ ~reader'.ret.found)
              /\ (reader.pc = "idle" /\ reader'.op = "list")
                   => \A j \in 1..Len(reader'.ret) : reader'.ret[j].session_id # s
              /\ \A p \in Humans :
                   (human[p].pc = "idle" /\ human'[p].pc # "idle" /\ human'[p].session_id = s)
                     => human'[p].pc = "KeyError"]_vars

\* C12 witness: 1800 s or more after the first session was created, with no
\* resolution of it, get_hitl_status has answered found=false for it.
C12_Witness ==
  /\ nextId > 1 /\ ~resolvedOnce[1] /\ now >= HITL_TTL
  /\ hitl_key(1) \notin DOMAIN kv
  /\ reader.pc = "returned" /\ reader.op = "status" /\ reader.session_id = 1
  /\ ~reader.ret.found

\* C13 (as claimed): once cancel_hitl has returned true for a session id, every
\* get_hitl_status call made after it answers found=false and every resume_hitl
\* call made after it raises KeyError, also when a resume_hitl call was between
\* its read and its writes at the time of the cancellation.
C13_CancelFinal ==
  [][\A s \in SessionIds :
       s \in polled.cancelled =>
         /\ (reader.pc = "idle" /\ reader'.op = "status" /\ reader'.session_id = s)
              => (reader'.pc = "returned" /\ ~reader'.ret.found)
         /\ \A p \in Humans :
              (human[p].pc = "idle" /\ human'[p].pc # "idle" /\ human'[p].session_id = s)
                => human'[p].pc = "KeyError"]_vars

\* C14: a resume_hitl call for a session id whose hitl:{id} key is not in the
\* store (never issued, expired or cancelled) raises KeyError, and neither its
\* read nor its raising changes any key, value or expiry.
C14_ResumeNotFound ==
  [][\A p \in Humans :
       /\ (human[p].pc = "idle" /\ human'[p].pc # "idle"
             /\ ~redis_exists(kv, hitl_key(human'[p].session_id)))
            => (human'[p].pc = "KeyError" /\ kv' = kv)
       /\ (human[p].pc = "KeyError" /\ human'[p] # human[p])
            => (human'[p].pc = "idle" /\ kv' = kv)]_vars

\* C14 witness: resume_hitl has raised KeyError for a session that was created
\* and is gone, while another session's record is in the store.
C14_Witness ==
  \E p \in Humans :
    /\ human[p].pc = "KeyError"
    /\ human[p].session_id < nextId
    /\ kv # <<>>

\* m is base with every field of over laid on it and status set to resolved.
IsOverlay(m, base, over) ==
  /\ DOMAIN m = (DOMAIN base) \cup (DOMAIN over) \cup {"status"}
  /\ \A f \in DOMAIN m :
       m[f] = IF f = "status" THEN "resolved"
              ELSE IF f \in DOMAIN over THEN over[f] ELSE base[f]

\* C15: a resume_hitl call that finds the record works on the record it read;
\* what it stores under hitl_resolved:{id}, and returns, is that record overlaid
\* with every field of the resolution and status resolved, whatever status the
\* resolution carries; it then stores the record it read, status resolved and
\* nothing else changed, under hitl:{id} with a TTL of 300 s.
C15_ResumeMerge ==
  [][\A p \in Humans :
       LET hk == hitl_key(human[p].session_id)
           rk == hitl_resolved_key(human[p].session_id)
       IN
         /\ (human[p].pc = "idle" /\ human'[p].pc = "set_resolved")
              => human'[p].session_data = json_loads(kv[hitl_key(human'[p].session_id)].val)
         /\ (human[p].pc = "set_resolved" /\ human'[p].pc = "set_pending")
              => /\ rk \in DOMAIN kv'
                 /\ IsOverlay(json_loads(kv'[rk].val), human[p].session_data, human[p].resolution)
                 /\ human'[p].merged = json_loads(kv'[rk].val)
         /\ (human[p].pc = "set_pending" /\ human'[p].pc = "returned")
              => /\ hk \in DOMAIN kv'
                 /\ IsOverlay(json_loads(kv'[hk].val), human[p].session_data, <<>>)
                 /\ redis_ttl(kv', hk, now') = AUDIT_TTL
                 /\ IsOverlay(human'[p].merged, human[p].session_data, human[p].resolution)]_vars

\* C15 witness: a resolution carrying status "pending" has been resolved; the
\* resolution record holds its token with status resolved.
C15_Witness ==
  \E p \in Humans :
    LET rk == hitl_resolved_key(human[p].session_id) IN
      /\ human[p].pc = "returned"
      /\ human[p].resolution.captcha_token = "tokB"
      /\ rk \in DOMAIN kv
      /\ json_loads(kv[rk].val).captcha_token = "tokB"
      /\ json_loads(kv[rk].val).status = "resolved"
      /\ json_loads(kv[rk].val) = human[p].merged

\* C16: with two resume_hitl calls interleaved in any way, the resolution record
\* is at every moment the pending record as created, overlaid with the whole of
\* one resolution and status resolved, never fields of two resolutions; each
\* write of it stores the writer's own overlay, so the last writer's stays.
C16_LastWriterWins ==
  [][LET rk == hitl_resolved_key(1) IN
       /\ rk \in DOMAIN kv =>
            \E r \in Resolutions : IsOverlay(json_loads(kv[rk].val), RaceSession, r)
       /\ \A p \in Humans :
            (human[p].pc = "set_resolved" /\ human'[p].pc = "set_pending")
              => IsOverlay(json_loads(kv'[rk].val), RaceSession, human[p].resolution)
       /\ (rk \in DOMAIN kv /\ rk \in DOMAIN kv' /\ kv'[rk] # kv[rk])
            => \E p \in Humans : human[p].pc = "set_resolved" /\ human'[p].pc = "set_pending"]_vars

\* C16 witness: a call that read the record before another call resolved the
\* session has written the resolution record after it, over the other's.
C16_Witness ==
  \E p \in Humans :
    /\ human[p].pc = "set_pending"
    /\ ~human[p].after_success
    /\ resolvedOnce[1]
    /\ human[p].resolution.captcha_token = "tokB"
    /\ hitl_resolved_key(1) \in DOMAIN kv
    /\ IsOverlay(json_loads(kv[hitl_resolved_key(1)].val), RaceSession, human[p].resolution)

\* C17 (as claimed): when get_hitl_status returns for a session id whose
\* resolution record is in the store, it has answered found=true with that
\* record under data.resolution.
C17_ResolutionVisible ==
  LET rk == hitl_resolved_key(reader.session_id) IN
    (reader.pc = "returned" /\ reader.op = "status" /\ rk \in DOMAIN kv)
      => /\ reader.ret.found
         /\ "resolution" \in DOMAIN reader.ret.data
         /\ reader.ret.data.resolution = json_loads(kv[rk].val)

\* C18: no step of get_hitl_status or list_pending_hitl, nor their returning,
\* changes the store: the same keys, the same values, the same expiry times, at
\* the same clock.
C18_ReadOnly ==
  [][(reader' # reader /\ (reader.op \in {"status", "list"} \/ reader'.op \in {"status", "list"}))
       => (kv' = kv /\ now' = now)]_vars

\* C18 witness: get_hitl_status has returned a resolved session with its
\* resolution, and both of its keys are in the store.
C18_Witness ==
  /\ reader.pc = "returned" /\ reader.op = "status" /\ reader.ret.found
  /\ "resolution" \in DOMAIN reader.ret.data
  /\ hitl_key(reader.session_id) \in DOMAIN kv
  /\ hitl_resolved_key(reader.session_id) \in DOMAIN kv
  /\ now > 0

\* A response that shows the session unresolved: found, pending, no resolution.
Unresolved(found, data) ==
  found /\ data.status = "pending" /\ "resolution" \notin DOMAIN data

\* C19: of two successive get_hitl_status responses for a session that both
\* show it unresolved, the second carries the same data as the first, and its
\* age_seconds is the first's plus the time that passed between the two calls'
\* readings of the clock.
C19_StatusIdempotent ==
  (/\ reader.pc = "returned" /\ reader.op = "status"
   /\ polled.session_id = reader.session_id
   /\ Unresolved(polled.found, polled.data)
   /\ Unresolved(reader.ret.found, reader.ret.data))
    => /\ reader.ret.data = polled.data
       /\ reader.ret.age_seconds = polled.age_seconds + (reader.at - polled.at)
       /\ reader.ret.age_seconds >= polled.age_seconds

\* C19 witness: a second response on the still unresolved session, taken later
\* than the first.
C19_Witness ==
  /\ reader.pc = "returned" /\ reader.op = "status"
  /\ polled.session_id = reader.session_id
  /\ Unresolved(polled.found, polled.data)
  /\ Unresolved(reader.ret.found, reader.ret.data)
  /\ reader.at > polled.at

\* C20: what list_pending_hitl returns, when none of its store operations
\* failed, holds exactly one summary for each
\* session whose hitl:{id} record is in the store with status pending and
\* nothing else (no resolved session, no hitl_resolved:* key), in the order of
\* created_at, newest first, each with the remaining TTL of its key.
C20_ListPending ==
  (reader.pc = "returned" /\ reader.op = "list" /\ reader.failed = "none") =>
    LET ret == reader.ret
        pending == {s \in SessionIds : IsPending(kv, s)}
    IN /\ Len(ret) = Cardinality(pending)
       /\ \A s \in pending : \E j \in 1..Len(ret) : ret[j].session_id = s
       /\ \A j \in 1..Len(ret) :
            /\ ret[j].session_id \in pending
            /\ ret[j].status = "pending"
            /\ ret[j].ttl_seconds = redis_ttl(kv, hitl_key(ret[j].session_id), now)
            /\ ret[j].created_at = json_loads(kv[hitl_key(ret[j].session_id)].val).created_at
       /\ \A i, j \in 1..Len(ret) : i < j => ret[i].created_at >= ret[j].created_at

\* C20 witness: two pending sessions created at different times are listed,
\* the newer one first.
C20_Witness ==
  /\ reader.pc = "returned" /\ reader.op = "list" /\ reader.failed = "none"
  /\ Len(reader.ret) = 2
  /\ reader.ret[1].created_at > reader.ret[2].created_at

\* C21: when a store operation of list_pending_hitl fails (the key scan, a
\* per-key read or a TTL read), the call returns normally and what it returns is
\* the empty list.
C21_FailedListEmpty ==
  (reader.pc = "returned" /\ reader.op = "list" /\ reader.failed # "none") =>
    reader.ret = <<>>

\* C22: cancel_hitl(session_id) leaves neither hitl:{session_id} nor
\* hitl_resolved:{session_id} in the store and touches no other key; it returns
\* true exactly when one of the two keys was there when it was called, and when
\* it returns false the store is as it was.
C22_Cancel ==
  [][(reader.pc = "idle" /\ reader'.pc = "returned" /\ reader'.op = "cancel") =>
       LET s == reader'.session_id
           both == {hitl_key(s), hitl_resolved_key(s)}
       IN /\ both \cap DOMAIN kv' = {}
          /\ DOMAIN kv' = (DOMAIN kv) \ both
          /\ \A k \in DOMAIN kv' : kv'[k] = kv[k]
          /\ reader'.ret = (both \cap DOMAIN kv # {})
          /\ (reader'.ret = FALSE => kv' = kv)]_vars

\* C22 witness: a cancel_hitl call returned true for a session that a human had
\* resolved before, so that a resolution record had been written for it.
C22_Witness ==
  /\ reader.pc = "returned" /\ reader.op = "cancel"
  /\ reader.ret = TRUE
  /\ resolvedOnce[reader.session_id]

\* ---------------------------------------------------- run claims, continued
\* The store write of pause_for_hitl failed in this invocation.
PauseFailed == \E j \in 1..Len(trace) : trace[j].ev = "pause_for_hitl" /\ trace[j].out = "error"

\* C23: when the store write of pause_for_hitl fails during a suspension,
\* run_browser returns (it does not raise) a result with error set, hitl_needed
\* false, success false and no session id; and a returned result that reports a
\* suspension or names a session has that session's record in the store.
C23_PauseWriteFailure ==
  /\ (RunEnded /\ PauseFailed) =>
       /\ run.pc = "returned"
       /\ run.result.error # ""
       /\ ~run.result.hitl_needed
       /\ ~run.result.success
       /\ run.result.session_id = NoSession
  /\ (run.pc = "returned" /\ (run.result.hitl_needed \/ run.result.session_id # NoSession)) =>
       /\ ~run.result.success
       /\ run.result.session_id # NoSession
       /\ redis_exists(kv, hitl_key(run.result.session_id))
       /\ json_loads(kv[hitl_key(run.result.session_id)].val).status = "pending"

\* C23 witness: a check after an action was positive, the cookies were taken,
\* the store write failed and the invocation has returned.
C23_Witness ==
  /\ run.pc = "returned" /\ PauseFailed
  /\ ~run.final
  /\ kv = <<>>

\* ------------------------------------------------------- detection claims
\* The positions in HITL_SELECTORS whose element the page shows.
VisibleAt(page) == {j \in 1..Len(HITL_SELECTORS) : page[HITL_SELECTORS[j]] = "visible"}
FirstOf(js) == CHOOSE j \in js : \A k \in js : j <= k

\* C24: for every page, _check_for_hitl returns (true, s) with s the first
\* selector in HITL_SELECTORS order whose element is present and visible, and
\* (false, "") exactly when no selector has a visible element; a present but
\* hidden element never makes the result positive.
C24_DetectionOrder ==
  probe.pc = "returned" =>
    LET vis == VisibleAt(probe.page) IN
      /\ vis # {} => probe.ret = [hit |-> TRUE, matched |-> HITL_SELECTORS[FirstOf(vis)]]
      /\ vis = {} => probe.ret = [hit |-> FALSE, matched |-> ""]
      /\ probe.ret.hit => probe.page[probe.ret.matched] # "hidden"

\* C24 witness: the first selector's element is hidden, two later selectors are
\* visible, and the earlier of the two is reported.
C24_Witness ==
  /\ probe.pc = "returned"
  /\ probe.page["#captcha"] = "hidden"
  /\ probe.page[".g-recaptcha"] = "absent"
  /\ probe.page[".h-captcha"] = "visible"
  /\ probe.page[".captcha-container"] = "visible"
  /\ probe.ret = [hit |-> TRUE, matched |-> ".h-captcha"]

\* C25: a probe that raises counts as no match for its selector only: the call
\* returns, an erroring selector is never the one reported, and a visible
\* selector after erroring ones (with none visible before it) is reported.
C25_ProbeErrorSkipped ==
  probe.pc # "idle" /\ probe.pc # "call" =>
    /\ probe.pc = "returned"
    /\ probe.ret.hit => probe.page[probe.ret.matched] # "error"
    /\ \A j, k \in 1..Len(HITL_SELECTORS) :
         ( /\ j < k
           /\ probe.page[HITL_SELECTORS[j]] = "error"
           /\ probe.page[HITL_SELECTORS[k]] = "visible"
           /\ \A l \in 1..(k - 1) : probe.page[HITL_SELECTORS[l]] # "visible" )
         => probe.ret = [hit |-> TRUE, matched |-> HITL_SELECTORS[k]]

\* C25 witness: the probes of the first two selectors raised and the third
\* selector, visible, is reported.
C25_Witness ==
  /\ probe.pc = "returned"
  /\ probe.page["#captcha"] = "error"
  /\ probe.page[".g-recaptcha"] = "error"
  /\ probe.page[".h-captcha"] = "visible"
  /\ probe.ret = [hit |-> TRUE, matched |-> ".h-captcha"]

\* The first navigation went through, no check was positive and nothing but
\* timeouts went wrong.
Undisturbed ==
  /\ \E j \in 1..Len(trace) : trace[j].ev = "goto" /\ trace[j].out = "ok"
  /\ \A j \in 1..Len(trace) : ~IsPositive(trace[j]) /\ trace[j].out # "error"

\* C26: the actions of a run are executed one at a time in list order (the
\* j-th action executed is the j-th of the list); an action of unknown type or
\* a wait that times out does not end the run: a run that has ended with no
\* positive check and no other error has attempted every action of its list
\* and returns success.
C26_InOrderNonFatal ==
  /\ \A j \in 1..Len(ActionEvents(trace)) :
       /\ ActionEvents(trace)[j].idx = j
       /\ ActionEvents(trace)[j].act = run.actions_to_run[j]
  /\ (RunEnded /\ Undisturbed) =>
       /\ run.pc = "returned"
       /\ Len(ActionEvents(trace)) = Len(run.actions_to_run)
       /\ run.result.success /\ run.result.error = ""

\* C26 witness: the first action of three timed out, the second was of unknown
\* type, the third was still executed and the run returned success.
C26_Witness ==
  /\ run.pc = "returned" /\ run.result.success
  /\ Len(ActionEvents(trace)) = 3
  /\ ActionEvents(trace)[1].out = "timeout"
  /\ ActionEvents(trace)[2].out = "skip"
  /\ ActionEvents(trace)[3].out = "ok"

\* C27: an invocation given a session id whose record cannot be loaded (the key
\* is not in the store, or the read fails) is not failed by that: it goes on as
\* a fresh run, with the url and the action list the caller supplied and no
\* cookie put into the browser context, and its first navigation, when it gets
\* there, is to the supplied url; its result carries an error only when a step
\* of the run failed.
C27_FreshWhenNotLoaded ==
  (run.pc # "idle" /\ run.session_id # NoSession /\ run.load # "found") =>
    /\ run.load \in {"missing", "error"}
    /\ run.url = caller.url
    /\ run.actions_to_run = caller.actions
    /\ run.cookies = <<>> /\ run.jar = <<>>
    /\ \A j \in 1..Len(trace) : trace[j].ev # "add_cookies"
    /\ run.visited \in {"", caller.url}
    /\ run.pc = "setup" => run.result = BrowserResult
    /\ run.result.error # "" => \E j \in 1..Len(trace) : trace[j].out = "error"
    /\ (RunEnded /\ Undisturbed) => run.result.success

\* C27 witness: a run given the id of a session whose read failed, although the
\* record is in the store, has executed the caller's three actions and
\* returned success.
C27_Witness ==
  /\ run.pc = "returned" /\ run.result.success
  /\ run.session_id # NoSession
  /\ run.load = "error" /\ redis_exists(kv, hitl_key(run.session_id))
  /\ Len(caller.actions) = 3 /\ Executed(trace) = caller.actions

\* The record the run in progress was started from.
Saved == json_loads(kv[hitl_key(run.session_id)].val)
GotoAt(tr) == {j \in 1..Len(tr) : tr[j].ev = "goto"}

\* C28: an invocation given a session id whose record is found starts from the
\* record: its first navigation is to the record's current_url, the record's
\* cookies are in the browser context before that navigation, and the actions
\* it executes are those of the record's actions_remaining, none when that list
\* is empty.
C28_ResumeFromRecord ==
  (run.pc # "idle" /\ run.load = "found") =>
    /\ redis_exists(kv, hitl_key(run.session_id))
    /\ run.url = Saved.current_url
    /\ run.visited \in {"", Saved.current_url}
    /\ run.actions_to_run = Saved.actions_remaining
    /\ IsPrefix(Executed(trace), Saved.actions_remaining)
    /\ Saved.actions_remaining = <<>> => ActionEvents(trace) = <<>>
    /\ \A j \in GotoAt(trace) :
         /\ run.visited = Saved.current_url
         /\ run.jar = Saved.cookies
         /\ Saved.cookies # <<>> => \E l \in 1..(j - 1) : trace[l].ev = "add_cookies"
    /\ (RunEnded /\ Undisturbed) => Executed(trace) = Saved.actions_remaining

\* C28 witness: a run resumed from a record whose current_url is not the url the
\* caller supplied, holding cookies and two remaining actions, has navigated to
\* the record's url with the cookies in place and executed the two actions.
C28_Witness ==
  /\ run.pc = "returned" /\ run.load = "found"
  /\ redis_exists(kv, hitl_key(run.session_id))
  /\ Saved.current_url # caller.url
  /\ run.visited = Saved.current_url
  /\ run.jar = Saved.cookies /\ run.jar # <<>>
  /\ Len(Saved.actions_remaining) = 2
  /\ Executed(trace) = Saved.actions_remaining
  /\ caller.actions # Saved.actions_remaining

\* C29: a run given a session id executes actions of the checkpoint only when
\* the session's record says resolved; while the record says pending, none of
\* the checkpointed actions is executed.
C29_ResumeOnlyResolved ==
  (run.load = "found" /\ ActionEvents(trace) # <<>>) =>
    /\ redis_exists(kv, hitl_key(run.session_id))
    /\ Saved.status = "resolved"

\* The event is a navigation that failed or timed out: the first page load, or
\* a navigate action.
NavigationFailed(e) ==
  \/ e.ev = "goto" /\ e.out = "error"
  \/ IsAction(e) /\ e.act.type = "navigate" /\ e.out \in {"timeout", "error"}

\* C30: a navigation failure is fatal to the run: once the first page load or a
\* navigate action has failed or timed out, no further action is executed and
\* the invocation returns a result with error set and success false.
C30_NavigationFatal ==
  \A j \in 1..Len(trace) :
    NavigationFailed(trace[j]) =>
      /\ \A l \in (j + 1)..Len(trace) : ~IsAction(trace[l])
      /\ run.pc = "returned"
      /\ run.result.error # "" /\ ~run.result.success

\* C31: a run_browser invocation writes to the store only by creating a
\* session: the step in which it returns hitl_needed adds exactly one record,
\* pending, under result.session_id, a key that was not there and is not the
\* session id the invocation was given; every other step of an invocation, and
\* every other key in that step, leaves the store as it was, expiry included.
C31_OnlyCreate ==
  [][run' # run =>
       IF run.pc = "suspend" /\ run'.pc = "returned" /\ run'.result.hitl_needed
         THEN LET key == hitl_key(run'.result.session_id) IN
                /\ run'.result.session_id # run.session_id
                /\ key \notin DOMAIN kv
                /\ DOMAIN kv' = (DOMAIN kv) \cup {key}
                /\ \A k \in DOMAIN kv : kv'[k] = kv[k]
                /\ json_loads(kv'[key].val).status = "pending"
         ELSE kv' = kv]_vars

\* C31 witness: a run resumed from a session has suspended again; the record
\* it resumed from and the new one are both in the store.
C31_Witness ==
  /\ run.pc = "returned" /\ run.result.hitl_needed /\ run.load = "found"
  /\ redis_exists(kv, hitl_key(run.session_id))
  /\ redis_exists(kv, hitl_key(run.result.session_id))
  /\ run.session_id # run.result.session_id

\* ------------------------------------------------- store claims, continued
\* Two versions of a record that differ in the status field at most.
SameButStatus(a, b) ==
  /\ DOMAIN a = DOMAIN b
  /\ \A f \in (DOMAIN a) \ {"status"} : a[f] = b[f]

\* C32: resume_hitl changes the status field and the TTL of the record under
\* hitl:{session_id} and nothing else of it: every step that leaves the record
\* in the store leaves all its other fields as they were, and a resume_hitl call
\* that writes the record back after it went away in between writes the fields
\* it had read from the store, whatever fields the resolution carries.
C32_ResumeFrame ==
  [][\A s \in SessionIds :
       LET key == hitl_key(s) IN
         /\ (key \in DOMAIN kv /\ key \in DOMAIN kv') =>
              SameButStatus(json_loads(kv[key].val), json_loads(kv'[key].val))
         /\ \A p \in Humans :
              /\ (human[p].pc = "idle" /\ human'[p].pc = "set_resolved"
                    /\ human'[p].session_id = s) =>
                   (key \in DOMAIN kv /\ human'[p].session_data = json_loads(kv[key].val))
              /\ (human[p].pc = "set_resolved" /\ human'[p].pc = "set_pending") =>
                   human'[p].session_data = human[p].session_data
         /\ (key \notin DOMAIN kv /\ key \in DOMAIN kv' /\ nextId' = nextId) =>
              \E p \in Humans :
                /\ human[p].pc = "set_pending" /\ human[p].session_id = s
                /\ SameButStatus(human[p].session_data, json_loads(kv'[key].val))]_vars

\* C32 witness: a resolution carrying cookies was written for a session, and
\* the record under hitl:{id}, now resolved, still holds the cookies it had.
C32_Witness ==
  \E s \in SessionIds :
    /\ redis_exists(kv, hitl_key(s)) /\ redis_exists(kv, hitl_resolved_key(s))
    /\ json_loads(kv[hitl_key(s)].val).status = "resolved"
    /\ json_loads(kv[hitl_key(s)].val).cookies = <<>>
    /\ json_loads(kv[hitl_resolved_key(s)].val).cookies = <<"SID=9">>

\* --------------------------------------------------------- endpoint claims
\* C33: a resolve request that supplies none of captcha_token, cookies and
\* manual_data is answered 422 in a step that leaves the store alone, and no
\* other request is; resume_hitl is only ever called with the non-empty
\* resolution of the request; a call for a session whose hitl:{id} key is not in
\* the store (never created, expired, cancelled) ends in KeyError, and KeyError
\* is answered 404 with the store unchanged.
C33_ResolveValidation ==
  [][/\ (api.pc = "idle" /\ api'.pc # "idle") =>
          /\ kv' = kv /\ human' = human
          /\ (DOMAIN api'.resolution = {}) <=> (api'.http = 422)
          /\ (api'.http = 422) <=> (api'.pc = "responded")
     /\ \A p \in Humans :
          (human[p].pc = "idle" /\ human'[p].pc # "idle") =>
            /\ api.pc = "calling" /\ DOMAIN api.resolution # {}
            /\ human'[p].session_id = api.session_id
            /\ human'[p].pc = "set_resolved" => human'[p].resolution = api.resolution
            /\ ~redis_exists(kv, hitl_key(api.session_id)) => human'[p].pc = "KeyError"
     /\ \A p \in Humans :
          (human[p].pc = "KeyError" /\ human'[p].pc # "KeyError") =>
            (api'.pc = "responded" /\ api'.http = 404 /\ kv' = kv)
     /\ (api'.http = 404 /\ api.http # 404) => \E p \in Humans : human[p].pc = "KeyError"]_vars

\* C33 witness: a request for a pending session that supplied no resolution
\* field has been answered 422, and the session is still pending.
C33_Witness ==
  /\ api.pc = "responded" /\ api.http = 422
  /\ redis_exists(kv, hitl_key(api.session_id))
  /\ json_loads(kv[hitl_key(api.session_id)].val).status = "pending"

\* C34: BaseGraph.run never lets an exception out to its caller; when it has
\* returned, exactly one TaskResult save has been attempted, whether or not the
\* row was committed: with status failed when an exception was caught (the
\* message is then in state["error"]), else hitl_pending when the final state
\* has hitl_needed, else success.
C34_RunNeverRaises ==
  /\ graph.pc # "raised"
  /\ Len(graph.saves) <= 1
  /\ graph.pc = "returned" =>
       /\ Len(graph.saves) = 1
       /\ graph.exc # "" =>
            (graph.saves[1].status = "failed" /\ graph.state.error = graph.exc)
       /\ (graph.exc = "" /\ graph.state.hitl_needed) =>
            graph.saves[1].status = "hitl_pending"
       /\ (graph.exc = "" /\ ~graph.state.hitl_needed) =>
            graph.saves[1].status = "success"

\* C34 witness: the graph returned a state with hitl_needed, the commit of the
\* TaskResult failed, and run has returned with the one hitl_pending attempt.
C34_Witness ==
  /\ graph.pc = "returned" /\ graph.exc = ""
  /\ graph.state.hitl_needed
  /\ Len(graph.saves) = 1 /\ ~graph.saves[1].stored
  /\ graph.saves[1].status = "hitl_pending"

\* ---------------------------------------------------- run claims, continued
\* C35: a result returned by run_browser has exactly one of success,
\* hitl_needed and a non-empty error (success and hitl_needed never both), and
\* it names a session if and only if hitl_needed is true.
C35_OneOutcome ==
  run.pc = "returned" =>
    /\ \/ run.result.success /\ ~run.result.hitl_needed /\ run.result.error = ""
       \/ ~run.result.success /\ run.result.hitl_needed /\ run.result.error = ""
       \/ ~run.result.success /\ ~run.result.hitl_needed /\ run.result.error # ""
    /\ (run.result.session_id # NoSession) <=> run.result.hitl_needed

\* C35 witness: a resumed run whose actions went through met a positive check
\* and returned a suspension naming the new session.
C35_Witness ==
  /\ run.pc = "returned" /\ run.loaded
  /\ run.result.hitl_needed /\ run.result.session_id # NoSession
  /\ Len(ActionEvents(trace)) > 0

\* ------------------------------------------------- store claims, continued
\* C36 (as claimed): whenever get_hitl_status returns data that contains a
\* resolution the data's status is resolved, and list_pending_hitl never
\* returns a session for which a resolution record exists.
C36_NoResolutionOnPending ==
  /\ (reader.pc = "returned" /\ reader.op = "status" /\ reader.ret.found
        /\ "resolution" \in DOMAIN reader.ret.data)
       => reader.ret.data.status = "resolved"
  /\ (reader.pc = "returned" /\ reader.op = "list")
       => \A j \in 1..Len(reader.ret) :
            ~redis_exists(kv, hitl_resolved_key(reader.ret[j].session_id))

\* This step is pause_for_hitl, a step of resume_hitl, or cancel_hitl, on session a.
ActsOn(a) ==
  \/ nextId = a /\ nextId' = a + 1
  \/ \E p \in Humans :
       \/ human[p].pc = "idle" /\ human'[p].pc # "idle" /\ human'[p].session_id = a
       \/ human[p].pc \in {"set_resolved", "set_pending"} /\ human'[p] # human[p]
            /\ human[p].session_id = a
  \/ reader.pc = "idle" /\ reader'.pc = "returned" /\ reader'.op = "cancel"
       /\ reader'.session_id = a

\* C37: a step of pause_for_hitl, resume_hitl or cancel_hitl on session a
\* leaves the pending record, the resolution record and the expiry of both, of
\* every other session b, as they were, however the calls interleave.
C37_SessionIsolation ==
  [][\A a \in SessionIds : ActsOn(a) =>
       \A b \in SessionIds \ {a} :
         \A key \in {hitl_key(b), hitl_resolved_key(b)} :
           /\ (key \in DOMAIN kv') <=> (key \in DOMAIN kv)
           /\ key \in DOMAIN kv => kv'[key] = kv[key]]_vars

\* C37 witness: two sessions are in the store, one resolved (its pending
\* record rewritten, its resolution record written), the other still pending.
C37_Witness ==
  \E a, b \in SessionIds :
    /\ a # b
    /\ redis_exists(kv, hitl_resolved_key(a)) /\ redis_exists(kv, hitl_key(a))
    /\ json_loads(kv[hitl_key(a)].val).status = "resolved"
    /\ redis_exists(kv, hitl_key(b)) /\ ~redis_exists(kv, hitl_resolved_key(b))
    /\ json_loads(kv[hitl_key(b)].val).status = "pending"

\* ---------------------------------------------------- run claims, continued
\* The sessions that runs have created so far.
Created == {s \in SessionIds : s < nextId}

\* Along the chain of resumed sessions that ends in s: the suspensions inside
\* the action loop, and the length of the list the first invocation was given.
RECURSIVE LoopSuspensions(_)
LoopSuspensions(s) ==
  (IF origin[s].final THEN 0 ELSE 1)
    + (IF origin[s].parent = NoSession THEN 0 ELSE LoopSuspensions(origin[s].parent))

RECURSIVE InitialLen(_)
InitialLen(s) ==
  IF origin[s].parent = NoSession THEN Len(origin[s].list) ELSE InitialLen(origin[s].parent)

\* C38: the actions_remaining a suspending run stores is a suffix of the list
\* that run executed, strictly shorter than it when the list is non-empty; a
\* run that resumes a session executes what that session stored; and along a
\* chain of invocations, each resuming the session the one before created, the
\* suspensions inside the action loop number at most the length of the first
\* invocation's list.
C38_ChainProgress ==
  /\ (run.pc = "returned" /\ run.result.hitl_needed) =>
       LET s == run.result.session_id
           list == run.actions_to_run
           left == json_loads(kv[hitl_key(s)].val).actions_remaining
       IN /\ Len(left) <= Len(list)
          /\ left = SubSeq(list, Len(list) - Len(left) + 1, Len(list))
          /\ list # <<>> => Len(left) < Len(list)
          /\ origin[s].list = list
  /\ \A s \in Created :
       /\ origin[s].parent # NoSession =>
            /\ origin[s].parent < s
            /\ Len(origin[s].list) <= Len(origin[origin[s].parent].list)
            /\ origin[origin[s].parent].list # <<>> =>
                 Len(origin[s].list) < Len(origin[origin[s].parent].list)
       /\ LoopSuspensions(s) <= InitialLen(s)

\* C38 witness: a run on a one-action list suspended inside the loop; a second
\* run resumed that session with nothing left to do and suspended at the check
\* after the loop.
C38_Witness ==
  \E s \in Created :
    /\ origin[s].parent # NoSession /\ origin[s].final
    /\ ~origin[origin[s].parent].final
    /\ Len(origin[origin[s].parent].list) = 1
    /\ run.pc = "returned" /\ run.result.session_id = s

\* The events of a detection and of the suspension that follows a positive one.
IsDetection(e) == e.ev \in {"check", "final_check", "screenshot", "cookies", "pause_for_hitl"}

\* C39: in a run with a non-empty action list the event after the first
\* navigation is the attempt of the first action; no detection check, and so
\* no suspension, comes before it, whatever the starting page shows, in a
\* fresh run and in one resumed at a stored current_url.
C39_FirstActionBeforeCheck ==
  run.actions_to_run # <<>> =>
    /\ \A j \in 1..Len(trace) :
         /\ IsDetection(trace[j]) => \E l \in 1..(j - 1) : IsAction(trace[l])
         /\ (trace[j].ev = "goto" /\ trace[j].out = "ok" /\ j < Len(trace)) =>
              (IsAction(trace[j + 1]) /\ trace[j + 1].idx = 1
                 /\ trace[j + 1].act = run.actions_to_run[1])
    /\ (run.pc = "returned" /\ run.result.hitl_needed) =>
         Len(ActionEvents(trace)) >= 1

\* C39 witness: a run resumed from a stored session attempted its first
\* action, the check right after it was positive, and the run suspended.
C39_Witness ==
  /\ run.pc = "returned" /\ run.load = "found" /\ run.result.hitl_needed
  /\ \E j \in 1..Len(trace) :
       /\ trace[j].ev = "goto"
       /\ j + 2 <= Len(trace)
       /\ IsAction(trace[j + 1])
       /\ trace[j + 2].ev = "check" /\ trace[j + 2].out # ""

====
